---- MODULE Spec2Model ----
\* Verification model of the validation orchestration core of spec-kit:
\*   utils/dependency_graph.py        DependencyGraph
\*   utils/retry_policies.py          CircuitBreaker
\*   validation/resource_deployer_simple.py   ResourceDeployer (the deployer
\*                                    that validation_session.py imports)
EXTENDS Integers, Sequences, FiniteSets, TLC

\* ------------------------------------------------------------------ bounds
MaxNodes == 3          \* resource identifiers 1..MaxNodes
MaxEdges == 3          \* distinct dependency edges added to one graph

Node == 1..MaxNodes

VARIABLES
    \* --- DependencyGraph (dependency_graph.py:31-35)
    nodes,            \* self.nodes : set of node ids
    graph,            \* self.graph : node -> list of dependents
    reverse_graph,    \* self.reverse_graph : node -> list of dependencies
    res,              \* outcome of the last query made on the graph
    \* --- CircuitBreaker (retry_policies.py:211-218)
    cb,               \* the breaker object: thresholds, state, counters
    now,              \* time.time()
    pending,          \* call_async invocations admitted and not yet completed
    ev,               \* what the last breaker operation did
    hist,             \* bookkeeping about past call outcomes
    \* --- ResourceDeployer (resource_deployer_simple.py:44-63, 68-137)
    dcfg,             \* force_redeploy, enable_rollback, dependency_graph given?
    run,              \* one deploy_resources() run: position, locals, call record
    \* --- ExponentialBackoff (retry_policies.py:49-68, 93-185)
    rp,               \* one execute_async / execute_sync call: policy, position
    \* --- FixOrchestrator (fix_orchestrator.py:63-82)
    fo,               \* the orchestrator: limits, fix_attempts, circuit_breaker_open
    \* --- ValidationSession (validation_session.py:117-168, 174-226)
    sess,             \* one run(): position, summary, test results
    \* --- FixOrchestrator._classify_deployment_error (fix_orchestrator.py:173-197)
    ce,               \* one call: the error message and the category returned
    \* --- ExponentialBackoff.get_delay (retry_policies.py:70-91)
    gd,               \* get_delay calls made on one policy
    \* --- admission gate of the deployer (resource_deployer_simple.py:61, 146)
    gate             \* the semaphore and the tasks of one batch

gvars == <<nodes, graph, reverse_graph, res>>

bvars == <<cb, now, pending, ev, hist>>

dvars == <<dcfg, run>>

rvars == <<rp>>

fvars == <<fo>>

svars == <<sess>>

cvars == <<ce>>

yvars == <<gd>>

avars == <<gate>>

\* what the operations of one component leave alone
gOthers == <<bvars, dvars, rvars, fvars, svars, cvars, yvars, avars>>

bOthers == <<gvars, dvars, rvars, fvars, svars, cvars, yvars, avars>>

dOthers == <<gvars, bvars, rvars, fvars, svars, cvars, yvars, avars>>

rOthers == <<gvars, bvars, dvars, fvars, svars, cvars, yvars, avars>>

fOthers == <<gvars, bvars, dvars, rvars, svars, cvars, yvars, avars>>

sOthers == <<gvars, bvars, dvars, rvars, cvars, yvars, avars>>

cOthers == <<gvars, bvars, dvars, rvars, fvars, svars, yvars, avars>>

yOthers == <<gvars, bvars, dvars, rvars, fvars, svars, cvars, avars>>

aOthers == <<gvars, bvars, dvars, rvars, fvars, svars, cvars, yvars>>

\* ------------------------------------------------------------ seq helpers
Range(s) == {s[i] : i \in 1..Len(s)}

IndexOf(s, x) == CHOOSE i \in 1..Len(s) : s[i] = x /\ \A j \in 1..(i-1) : s[j] # x

Min(a, b) == IF a <= b THEN a ELSE b

RECURSIVE SeqsOver(_)
\* all enumerations (without repetition) of the finite set S: the orders in
\* which Python may iterate over a set of strings
SeqsOver(S) ==
    IF S = {} THEN {<<>>}
    ELSE UNION {{<<x>> \o t : t \in SeqsOver(S \ {x})} : x \in S}

RECURSIVE FlattenSeq(_)
FlattenSeq(ss) == IF ss = <<>> THEN <<>> ELSE Head(ss) \o FlattenSeq(Tail(ss))

\* ---------------------------------------------------------- DependencyGraph
NoRes == [op |-> "none", raised |-> "none", seq |-> <<>>, bat |-> <<>>, flag |-> FALSE]

EdgeCount == LET RECURSIVE Sum(_)
                 Sum(S) == IF S = {} THEN 0
                           ELSE LET n == CHOOSE n \in S : TRUE
                                IN Len(reverse_graph[n]) + Sum(S \ {n})
             IN Sum(nodes)

\* add_node applied to the triple <<nodes, graph, reverse_graph>>
add_node(g, node) ==
    IF node \notin g[1]
    THEN <<g[1] \cup {node}, g[2] @@ (node :> <<>>), g[3] @@ (node :> <<>>)>>
    ELSE g

\* add_dependency without the two membership tests: the edge is appended to
\* both adjacency lists even when it is already stored
add_dependency_unchecked(g, node, depends_on) ==
    LET g1 == add_node(add_node(g, node), depends_on)
    IN <<g1[1], [g1[2] EXCEPT ![depends_on] = Append(@, node)],
         [g1[3] EXCEPT ![node] = Append(@, depends_on)]>>

\* add_dependency applied to the triple <<nodes, graph, reverse_graph>>
add_dependency(g, node, depends_on) ==
    LET g1 == add_node(add_node(g, node), depends_on)
        fw == IF node \notin Range(g1[2][depends_on])
              THEN [g1[2] EXCEPT ![depends_on] = Append(@, node)]
              ELSE g1[2]
        bw == IF depends_on \notin Range(g1[3][node])
              THEN [g1[3] EXCEPT ![node] = Append(@, depends_on)]
              ELSE g1[3]
    IN <<g1[1], fw, bw>>

EmptyGraph == <<{}, <<>>, <<>>>>

\* _find_cycle_path: walk dependencies inside nodes_in_cycle until a node
\* repeats
RECURSIVE find_cycle_path(_, _), cycle_walk(_, _, _, _)

\* the walk that returns the whole path when a node repeats, without
\* cutting off the nodes walked before the cycle was entered
RECURSIVE cycle_walk_uncut(_, _, _, _)
cycle_walk_uncut(rg, nic, path, current) ==
    LET dependencies == SelectSeq(rg[current], LAMBDA d : d \in Range(nic))
    IN IF dependencies = <<>>
       THEN IF Len(nic) > 1 THEN find_cycle_path(rg, Tail(nic)) ELSE path
       ELSE LET next_node == dependencies[1]
            IN IF next_node \in Range(path)
               THEN path \o <<next_node>>
               ELSE LET p2 == Append(path, next_node)
                    IN IF Len(p2) > Len(nic) * 2
                       THEN SubSeq(p2, 1, Min(10, Len(p2)))
                       ELSE cycle_walk_uncut(rg, nic, p2, next_node)

cycle_walk(rg, nic, path, current) ==
    LET dependencies == SelectSeq(rg[current], LAMBDA d : d \in Range(nic))
    IN IF dependencies = <<>>
       THEN IF Len(nic) > 1 THEN find_cycle_path(rg, Tail(nic)) ELSE path
       ELSE LET next_node == dependencies[1]
            IN IF next_node \in Range(path)
               THEN SubSeq(path, IndexOf(path, next_node), Len(path)) \o <<next_node>>
               ELSE LET p2 == Append(path, next_node)
                    IN IF Len(p2) > Len(nic) * 2
                       THEN SubSeq(p2, 1, Min(10, Len(p2)))
                       ELSE cycle_walk(rg, nic, p2, next_node)

find_cycle_path(rg, nic) ==
    IF nic = <<>> THEN <<>>
    ELSE cycle_walk(rg, nic, <<nic[1]>>, nic[1])

\* inner for-loop of Kahn's algorithm: decrement the in-degree of every
\* dependent, enqueue the ones that reach zero
RECURSIVE kahn_dependents(_, _, _)
kahn_dependents(deps, in_degree, queue) ==
    IF deps = <<>> THEN <<in_degree, queue>>
    ELSE LET d   == Head(deps)
             ind == [in_degree EXCEPT ![d] = @ - 1]
         IN kahn_dependents(Tail(deps), ind,
                            IF ind[d] = 0 THEN Append(queue, d) ELSE queue)

\* while-loop of Kahn's algorithm
RECURSIVE kahn_loop(_, _, _, _)
kahn_loop(fg, queue, ordered, in_degree) ==
    IF queue = <<>> THEN <<ordered, in_degree>>
    ELSE LET node == Head(queue)
             st   == kahn_dependents(fg[node], in_degree, Tail(queue))
         IN kahn_loop(fg, st[2], Append(ordered, node), st[1])

\* get_ordered_resources with the in-degree taken from self.graph (the
\* dependents) instead of self.reverse_graph (the dependencies)
get_ordered_resources_fwd_degree(g, iter) ==
    LET in_degree == [n \in g[1] |-> Len(g[2][n])]
        queue     == SelectSeq(iter, LAMBDA n : in_degree[n] = 0)
        fin       == kahn_loop(g[2], queue, <<>>, in_degree)
        remaining == SelectSeq(iter, LAMBDA n : fin[2][n] > 0)
    IN IF remaining # <<>>
       THEN [raised |-> "CyclicDependencyError", seq |-> <<>>]
       ELSE [raised |-> "none", seq |-> fin[1]]

\* get_ordered_resources with the leftover test off by one (in_degree > 1)
get_ordered_resources_off_by_one(g, iter) ==
    LET in_degree == [n \in g[1] |-> Len(g[3][n])]
        queue     == SelectSeq(iter, LAMBDA n : in_degree[n] = 0)
        fin       == kahn_loop(g[2], queue, <<>>, in_degree)
        remaining == SelectSeq(iter, LAMBDA n : fin[2][n] > 1)
    IN IF remaining # <<>>
       THEN [raised |-> "CyclicDependencyError", seq |-> find_cycle_path(g[3], remaining)]
       ELSE [raised |-> "none", seq |-> fin[1]]

\* get_ordered_resources on graph g; iter is the order in which the set
\* self.nodes is iterated
get_ordered_resources(g, iter) ==
    LET in_degree == [n \in g[1] |-> Len(g[3][n])]
        queue     == SelectSeq(iter, LAMBDA n : in_degree[n] = 0)
        fin       == kahn_loop(g[2], queue, <<>>, in_degree)
        remaining == SelectSeq(iter, LAMBDA n : fin[2][n] > 0)
    IN IF remaining # <<>>
       THEN [raised |-> "CyclicDependencyError", seq |-> find_cycle_path(g[3], remaining)]
       ELSE [raised |-> "none", seq |-> fin[1]]

\* has_cycle: get_ordered_resources with CyclicDependencyError turned into TRUE
has_cycle(g, iter) ==
    LET r == get_ordered_resources(g, iter)
    IN IF r.raised = "CyclicDependencyError" THEN [raised |-> "none", flag |-> TRUE]
       ELSE [raised |-> r.raised, flag |-> FALSE]

\* batch_loop with any() in place of all(): a node joins a batch as soon as
\* one of its dependencies is deployed
RECURSIVE batch_loop_any(_, _, _, _)
batch_loop_any(rg, ordered, batches, deployed) ==
    IF ~(Cardinality(deployed) < Len(ordered))
    THEN [raised |-> "none", bat |-> batches]
    ELSE LET batch == SelectSeq(ordered,
                        LAMBDA r : r \notin deployed
                                   /\ (Range(rg[r]) = {}
                                       \/ \E dep \in Range(rg[r]) : dep \in deployed))
         IN IF batch = <<>>
            THEN [raised |-> "RuntimeError", bat |-> <<>>]
            ELSE batch_loop_any(rg, ordered, Append(batches, batch), deployed \cup Range(batch))

\* batch_loop that stops collecting at the first resource that is ready:
\* every batch holds one resource
RECURSIVE batch_loop_first_ready(_, _, _, _)
batch_loop_first_ready(rg, ordered, batches, deployed) ==
    IF ~(Cardinality(deployed) < Len(ordered))
    THEN [raised |-> "none", bat |-> batches]
    ELSE LET ready == SelectSeq(ordered,
                        LAMBDA r : r \notin deployed
                                   /\ \A dep \in Range(rg[r]) : dep \in deployed)
         IN IF ready = <<>>
            THEN [raised |-> "RuntimeError", bat |-> <<>>]
            ELSE batch_loop_first_ready(rg, ordered, Append(batches, <<Head(ready)>>),
                                        deployed \cup {Head(ready)})

\* while-loop of get_deployment_batches
RECURSIVE batch_loop(_, _, _, _)
batch_loop(rg, ordered, batches, deployed) ==
    IF ~(Cardinality(deployed) < Len(ordered))
    THEN [raised |-> "none", bat |-> batches]
    ELSE LET batch == SelectSeq(ordered,
                        LAMBDA r : r \notin deployed
                                   /\ \A dep \in Range(rg[r]) : dep \in deployed)
         IN IF batch = <<>>
            THEN [raised |-> "RuntimeError", bat |-> <<>>]
            ELSE batch_loop(rg, ordered, Append(batches, batch), deployed \cup Range(batch))

get_deployment_batches(g, iter) ==
    LET o == get_ordered_resources(g, iter)
    IN IF o.raised # "none" THEN [raised |-> o.raised, bat |-> <<>>]
       ELSE batch_loop(g[3], o.seq, <<>>, {})

\* index of the batch that holds node n
BatchOf(bat, n) == CHOOSE i \in 1..Len(bat) : n \in Range(bat[i])

G == <<nodes, graph, reverse_graph>>

SetGraph(g) ==
    /\ nodes' = g[1]
    /\ graph' = g[2]
    /\ reverse_graph' = g[3]

\* res is bookkeeping: a query reads the graph only, so a query repeated with
\* no mutation in between yields nothing new and is not taken again
Unqueried == res.op = "none"

AddNode ==
    \E n \in Node :
        /\ SetGraph(add_node(G, n))
        /\ res' = NoRes
        /\ UNCHANGED gOthers

AddDependency ==
    \E n \in Node, d \in Node :
        /\ \/ EdgeCount < MaxEdges
           \/ n \in nodes /\ d \in Range(reverse_graph[n])
        /\ SetGraph(add_dependency(G, n, d))
        /\ res' = NoRes
        /\ UNCHANGED gOthers

Clear ==
    /\ SetGraph(EmptyGraph)
    /\ res' = NoRes
    /\ UNCHANGED gOthers

GetOrderedResources ==
    /\ Unqueried
    /\ \E iter \in SeqsOver(nodes) :
         LET r == get_ordered_resources(G, iter)
         IN res' = [NoRes EXCEPT !.op = "ordered", !.raised = r.raised, !.seq = r.seq]
    /\ UNCHANGED <<nodes, graph, reverse_graph, gOthers>>

HasCycle ==
    /\ Unqueried
    /\ \E iter \in SeqsOver(nodes) :
         LET r == has_cycle(G, iter)
         IN res' = [NoRes EXCEPT !.op = "has_cycle", !.raised = r.raised, !.flag = r.flag]
    /\ UNCHANGED <<nodes, graph, reverse_graph, gOthers>>

GetDeploymentBatches ==
    /\ Unqueried
    /\ \E iter \in SeqsOver(nodes) :
         LET r == get_deployment_batches(G, iter)
         IN res' = [NoRes EXCEPT !.op = "batches", !.raised = r.raised, !.bat = r.bat]
    /\ UNCHANGED <<nodes, graph, reverse_graph, gOthers>>

GraphInit ==
    /\ nodes = {}
    /\ graph = <<>>
    /\ reverse_graph = <<>>
    /\ res = NoRes

GraphNext ==
    \/ AddNode
    \/ AddDependency
    \/ Clear
    \/ GetOrderedResources
    \/ HasCycle
    \/ GetDeploymentBatches


\* ----------------------------------------------------------- CircuitBreaker
MaxThreshold == 2      \* failure_threshold, success_threshold in 1..MaxThreshold
MaxTimeout == 2        \* recovery_timeout in 0..MaxTimeout
MaxTime == 4           \* the clock runs over 1..MaxTime
MaxCalls == 5          \* calls made on one breaker
MaxInflight == 2       \* call_async invocations in flight together

\* last_failure_time = None; `if self.last_failure_time:` treats None and 0.0
\* alike, and time.time() is never 0
NoTime == 0

\* CircuitBreaker.__init__
NewBreaker(ft, rt, st) ==
    [failure_threshold |-> ft, recovery_timeout |-> rt, success_threshold |-> st,
     state |-> "closed", failure_count |-> 0, success_count |-> 0,
     last_failure_time |-> NoTime]

\* call_gate without the recovery_timeout test: an open breaker always lets
\* the call through as a probe
call_gate_no_timeout(b, t) ==
    IF b.state = "open" /\ b.last_failure_time # NoTime
    THEN [raised |-> "none",
          b |-> [b EXCEPT !.state = "half_open", !.success_count = 0]]
    ELSE [raised |-> "none", b |-> b]

\* call_gate with `elapsed > recovery_timeout` in place of `>=`
call_gate_strict(b, t) ==
    IF b.state = "open" /\ b.last_failure_time # NoTime
    THEN IF t - b.last_failure_time > b.recovery_timeout
         THEN [raised |-> "none",
               b |-> [b EXCEPT !.state = "half_open", !.success_count = 0]]
         ELSE [raised |-> "CircuitBreakerError", b |-> b]
    ELSE [raised |-> "none", b |-> b]

\* the gate at the head of call / call_async: the breaker as the guarded
\* function will see it, or a CircuitBreakerError
call_gate(b, t) ==
    IF b.state = "open"
    THEN IF b.last_failure_time # NoTime
         THEN IF t - b.last_failure_time >= b.recovery_timeout
              THEN [raised |-> "none",
                    b |-> [b EXCEPT !.state = "half_open", !.success_count = 0]]
              ELSE [raised |-> "CircuitBreakerError", b |-> b]
         ELSE [raised |-> "none", b |-> b]
    ELSE [raised |-> "none", b |-> b]

\* _on_success without the reset of failure_count in the closed state
on_success_no_reset(b) ==
    IF b.state = "half_open"
    THEN LET b1 == [b EXCEPT !.success_count = @ + 1]
         IN IF b1.success_count >= b1.success_threshold
            THEN [b1 EXCEPT !.state = "closed", !.failure_count = 0, !.success_count = 0]
            ELSE b1
    ELSE b

\* _on_success without the reset of success_count when the breaker closes
on_success_keeps_count(b) ==
    IF b.state = "half_open"
    THEN LET b1 == [b EXCEPT !.success_count = @ + 1]
         IN IF b1.success_count >= b1.success_threshold
            THEN [b1 EXCEPT !.state = "closed", !.failure_count = 0]
            ELSE b1
    ELSE IF b.state = "closed"
         THEN [b EXCEPT !.failure_count = 0]
         ELSE b

\* _on_success
on_success(b) ==
    IF b.state = "half_open"
    THEN LET b1 == [b EXCEPT !.success_count = @ + 1]
         IN IF b1.success_count >= b1.success_threshold
            THEN [b1 EXCEPT !.state = "closed", !.failure_count = 0, !.success_count = 0]
            ELSE b1
    ELSE IF b.state = "closed"
         THEN [b EXCEPT !.failure_count = 0]
         ELSE b

\* _on_failure without the half-open branch: a failed probe leaves the
\* breaker half-open
on_failure_keeps_probing(b, t) ==
    LET b1 == [b EXCEPT !.failure_count = @ + 1, !.last_failure_time = t]
    IN IF b1.state = "closed" /\ b1.failure_count >= b1.failure_threshold
       THEN [b1 EXCEPT !.state = "open"]
       ELSE b1

\* _on_failure
on_failure(b, t) ==
    LET b1 == [b EXCEPT !.failure_count = @ + 1, !.last_failure_time = t]
    IN IF b1.state = "half_open"
       THEN [b1 EXCEPT !.state = "open", !.success_count = 0]
       ELSE IF b1.state = "closed"
            THEN IF b1.failure_count >= b1.failure_threshold
                 THEN [b1 EXCEPT !.state = "open"]
                 ELSE b1
            ELSE b1

\* reset
reset(b) ==
    [b EXCEPT !.state = "closed", !.failure_count = 0, !.success_count = 0,
              !.last_failure_time = NoTime]

\* bookkeeping, not program state.  hist.calls: calls made; hist.invoked:
\* invocations of the guarded function; hist.consec_fail: failed invocations
\* completed since the last successful one (or reset); hist.ho_succ:
\* successful invocations completed in half-open since the breaker last
\* entered half-open without a failure in between.
NoHist == [calls |-> 0, invoked |-> 0, consec_fail |-> 0, ho_succ |-> 0]

NoEv == [kind |-> "none", seen |-> "none", ok |-> FALSE]

HistGate(h, b, g) ==
    [h EXCEPT !.calls = @ + 1,
              !.invoked = IF g.raised = "none" THEN @ + 1 ELSE @,
              !.ho_succ = IF b.state = "open" /\ g.b.state = "half_open" THEN 0 ELSE @]

HistDone(h, b, ok) ==
    [h EXCEPT !.consec_fail = IF ok THEN 0 ELSE @ + 1,
              !.ho_succ = IF ~ok THEN 0
                          ELSE IF b.state = "half_open" THEN @ + 1 ELSE @]

\* call(func): gate, then func, then _on_success or _on_failure
Call ==
    \E ok \in BOOLEAN :
        LET g == call_gate(cb, now)
        IN /\ hist.calls < MaxCalls
           /\ pending = 0
           /\ IF g.raised # "none"
              THEN /\ cb' = g.b
                   /\ ev' = [kind |-> "rejected", seen |-> "none", ok |-> FALSE]
                   /\ hist' = HistGate(hist, cb, g)
              ELSE /\ cb' = IF ok THEN on_success(g.b) ELSE on_failure(g.b, now)
                   /\ ev' = [kind |-> "call", seen |-> g.b.state, ok |-> ok]
                   /\ hist' = HistDone(HistGate(hist, cb, g), g.b, ok)
           /\ UNCHANGED <<now, pending, bOthers>>

\* call_async(func) up to `await func(...)`
CallAsyncBegin ==
    LET g == call_gate(cb, now)
    IN /\ hist.calls < MaxCalls
       /\ pending < MaxInflight
       /\ cb' = g.b
       /\ hist' = HistGate(hist, cb, g)
       /\ IF g.raised # "none"
          THEN /\ ev' = [kind |-> "rejected", seen |-> "none", ok |-> FALSE]
               /\ UNCHANGED pending
          ELSE /\ ev' = [kind |-> "admitted", seen |-> g.b.state, ok |-> FALSE]
               /\ pending' = pending + 1
       /\ UNCHANGED <<now, bOthers>>

\* call_async(func) from the completion of `await func(...)`
CallAsyncEnd ==
    \E ok \in BOOLEAN :
        /\ pending > 0
        /\ cb' = IF ok THEN on_success(cb) ELSE on_failure(cb, now)
        /\ ev' = [kind |-> "completed", seen |-> cb.state, ok |-> ok]
        /\ hist' = HistDone(hist, cb, ok)
        /\ pending' = pending - 1
        /\ UNCHANGED <<now, bOthers>>

Reset ==
    /\ cb' = reset(cb)
    /\ ev' = [kind |-> "reset", seen |-> "none", ok |-> FALSE]
    /\ hist' = [hist EXCEPT !.consec_fail = 0, !.ho_succ = 0]
    /\ UNCHANGED <<now, pending, bOthers>>

Tick ==
    /\ now < MaxTime
    /\ now' = now + 1
    /\ UNCHANGED <<cb, pending, ev, hist, bOthers>>

BreakerInit ==
    /\ \E ft \in 1..MaxThreshold, rt \in 0..MaxTimeout, st \in 1..MaxThreshold :
         cb = NewBreaker(ft, rt, st)
    /\ now = 1
    /\ pending = 0
    /\ ev = NoEv
    /\ hist = NoHist

\* the breaker when the behaviour is about another component
BreakerIdle ==
    /\ cb = NewBreaker(1, 0, 1)
    /\ now = 1
    /\ pending = 0
    /\ ev = NoEv
    /\ hist = NoHist

BreakerNext ==
    \/ Call
    \/ CallAsyncBegin
    \/ CallAsyncEnd
    \/ Reset
    \/ Tick

\* --------------------------------------------------------- ResourceDeployer
MaxSpecs == 3          \* deployments handed to one deploy_resources() call
MaxDeps == 2           \* dependency edges of the graph handed to it

\* ExponentialBackoff(max_attempts=3, ...) of the deployer
max_attempts == 3

\* sort key of a deployment whose resource_id is not in the graph
missing_key == 999

Rid == 1..MaxSpecs

RECURSIVE Reverse(_)
Reverse(s) == IF s = <<>> THEN <<>> ELSE Append(Reverse(Tail(s)), Head(s))

\* _rollback_deployments without reversed(): deletes in deployment order
rollback_order_forward(deployed) == deployed

\* the order in which _rollback_deployments walks the deployed resources
rollback_order(deployed) == Reverse(deployed)

RECURSIVE insert_by_key(_, _, _)
\* x put into the key-sorted list s behind every element whose key is <= x's
insert_by_key(s, x, key) ==
    IF s = <<>> THEN <<x>>
    ELSE IF key[Head(s)] <= key[x] THEN <<Head(s)>> \o insert_by_key(Tail(s), x, key)
         ELSE <<x>> \o s

RECURSIVE sorted_by_key(_, _, _)
\* sorted(deployments, key=...): stable
sorted_by_key(s, acc, key) ==
    IF s = <<>> THEN acc
    ELSE sorted_by_key(Tail(s), insert_by_key(acc, Head(s), key), key)

\* deploy_resources without the sort: deployments stay in the caller's order
order_deployments_unsorted(deployments, ordered_ids) == deployments

\* "Order deployments": by position in get_ordered_resources()
order_deployments(deployments, ordered_ids) ==
    LET key == [r \in Range(deployments) |->
                  IF r \in Range(ordered_ids) THEN IndexOf(ordered_ids, r) - 1
                  ELSE missing_key]
    IN sorted_by_key(deployments, <<>>, key)

NoRun ==
    [pc |-> "idle", deployments |-> <<>>, i |-> 0, attempt |-> 0,
     cur_exists |-> FALSE,
     ops |-> [r \in Rid |-> {}], reported |-> {},
     deployed_resources |-> <<>>, error_messages |-> <<>>,
     self_deployed |-> <<>>,
     to_delete |-> <<>>, deleted |-> <<>>, delete_failed |-> FALSE,
     success |-> FALSE, waves |-> <<>>,
     tracing |-> FALSE, trace |-> <<>>]

\* bookkeeping, kept in the runs that start with tracing on: the backend
\* calls made for the deployment the loop is at, in order, each with its
\* outcome (the log starts afresh at the first call for the next deployment)
logged(dd, r, op, ok) ==
    IF ~dd.tracing THEN dd
    ELSE LET old == IF dd.trace # <<>> /\ dd.trace[1].rid = r THEN dd.trace ELSE <<>>
         IN [dd EXCEPT !.trace = Append(old, [rid |-> r, op |-> op, ok |-> ok])]

\* the deployment the loop of _deploy_without_progress is at
Cur == run.deployments[run.i]

\* finish with success decided by the error messages alone
finish_success_without_deployed(dd, cfg) ==
    LET success == dd.error_messages = <<>>
    IN IF ~success /\ cfg.enable_rollback /\ dd.deployed_resources # <<>>
       THEN [dd EXCEPT !.pc = "rollback", !.success = success,
                       !.attempt = 0, !.cur_exists = FALSE,
                       !.to_delete = rollback_order(dd.deployed_resources)]
       ELSE [dd EXCEPT !.pc = "returned", !.success = success,
                       !.attempt = 0, !.cur_exists = FALSE]

\* deploy_resources after the loop: success, then rollback or return
finish(dd, cfg) ==
    LET success == dd.error_messages = <<>> /\ Len(dd.deployed_resources) > 0
    IN IF ~success /\ cfg.enable_rollback /\ dd.deployed_resources # <<>>
       THEN [dd EXCEPT !.pc = "rollback", !.success = success,
                       !.attempt = 0, !.cur_exists = FALSE,
                       !.to_delete = rollback_order(dd.deployed_resources)]
       ELSE [dd EXCEPT !.pc = "returned", !.success = success,
                       !.attempt = 0, !.cur_exists = FALSE]

\* where _deploy_single starts: with the idempotency check unless
\* force_redeploy
first_step_always_check(cfg) == "exists"

first_step(cfg) == IF cfg.force_redeploy THEN "validate" ELSE "exists"

\* the loop goes to its next deployment (which exists in the backend or not:
\* e), or ends
advance(dd, cfg, e) ==
    IF dd.i + 1 > Len(dd.deployments)
    THEN finish([dd EXCEPT !.i = @ + 1], cfg)
    ELSE [dd EXCEPT !.i = @ + 1, !.attempt = 0, !.cur_exists = e,
                    !.pc = first_step(cfg)]

\* _deploy_single returned True
single_ok(dd, r) ==
    [dd EXCEPT !.self_deployed = Append(@, r),
               !.deployed_resources = Append(@, r)]

\* a failed _deploy_single that leaves no error message
single_failed_silent(dd, r) == dd

\* _deploy_single returned False
single_failed(dd, r) ==
    [dd EXCEPT !.error_messages = Append(@, r)]

\* a retry loop that allows one try more than max_attempts
retry_or_fail_one_more(dd, cfg, r, e) ==
    IF dd.attempt < max_attempts
    THEN [dd EXCEPT !.attempt = @ + 1]
    ELSE advance(single_failed(dd, r), cfg, e)

\* one failed try of a retry loop: another try, or the failure is final
retry_or_fail(dd, cfg, r, e) ==
    IF dd.attempt < max_attempts - 1
    THEN [dd EXCEPT !.attempt = @ + 1]
    ELSE advance(single_failed(dd, r), cfg, e)

\* deploy_resources without the check for circular dependencies
cycle_check_skipped(cfg, g, iter) == FALSE

\* `if dependency_graph and dependency_graph.has_cycle()`
cycle_check(cfg, g, iter) == cfg.with_graph /\ has_cycle(g, iter).flag

\* deploy_resources up to the first backend call
DeployResources ==
    /\ run.pc = "idle"
    /\ \E iter \in SeqsOver(nodes), e \in BOOLEAN :
         IF cycle_check(dcfg, G, iter)
         THEN run' = [run EXCEPT !.pc = "ValidationError"]
         ELSE LET o  == get_ordered_resources(G, iter)
                  ds == IF dcfg.with_graph /\ o.raised = "none"
                        THEN order_deployments(run.deployments, o.seq)
                        ELSE run.deployments
                  \* bookkeeping: the batch number of every node of the
                  \* graph handed in
                  b  == get_deployment_batches(G, iter).bat
                  w  == IF dcfg.with_graph /\ o.raised = "none"
                        THEN [r \in nodes |-> BatchOf(b, r)] ELSE <<>>
              IN run' = advance([run EXCEPT !.deployments = ds, !.i = 0,
                                            !.waves = w], dcfg, e)
    /\ UNCHANGED <<dcfg, dOthers>>

\* _check_resource_exists: cli.get_resource answers (found) or fails
CheckResourceExists ==
    /\ run.pc = "exists"
    /\ \E found \in BOOLEAN, e \in BOOLEAN :
        /\ found => run.cur_exists
        /\ LET d1 == logged([run EXCEPT !.ops[Cur] = @ \cup {"exists"},
                                      !.reported = IF found THEN @ \cup {Cur} ELSE @],
                            Cur, "exists", found)
           IN run' = IF found
                   THEN advance(single_ok(d1, Cur), dcfg, e)
                   ELSE [d1 EXCEPT !.pc = "validate", !.attempt = 0]
        /\ UNCHANGED <<dcfg, dOthers>>

\* one pass of the validation retry loop: cli.validate_template
ValidateTemplate ==
    /\ run.pc = "validate"
    /\ \E valid \in BOOLEAN, e \in BOOLEAN :
        /\ LET d1 == logged([run EXCEPT !.ops[Cur] = @ \cup {"validate"}],
                            Cur, "validate", valid)
           IN run' = IF valid
                   THEN [d1 EXCEPT !.pc = "provision", !.attempt = 0]
                   ELSE retry_or_fail(d1, dcfg, Cur, e)
        /\ UNCHANGED <<dcfg, dOthers>>

\* one pass of the deployment retry loop: cli.deploy_template
DeployTemplate ==
    /\ run.pc = "provision"
    /\ \E ok \in BOOLEAN, e \in BOOLEAN :
        /\ LET d1 == logged([run EXCEPT !.ops[Cur] = @ \cup {"provision"}],
                            Cur, "provision", ok)
           IN run' = IF ok
                   THEN advance(single_ok(d1, Cur), dcfg, e)
                   ELSE retry_or_fail(d1, dcfg, Cur, e)
        /\ UNCHANGED <<dcfg, dOthers>>

\* one pass of the loop of _rollback_deployments: cli.delete_resource
DeleteResource ==
    /\ run.pc = "rollback"
    /\ \E ok \in BOOLEAN :
        /\ LET rest == Tail(run.to_delete)
           IN run' = [run EXCEPT !.deleted = Append(@, Head(run.to_delete)),
                             !.delete_failed = @ \/ ~ok,
                             !.to_delete = rest,
                             !.pc = IF rest = <<>> THEN "returned" ELSE "rollback"]
        /\ UNCHANGED <<dcfg, dOthers>>

\* the candidate dependency edges <<dependent, dependency>>: between
\* resources with neighbouring ids, in either direction
DepPairs == {p \in Rid \X Rid : p[1] = p[2] + 1 \/ p[2] = p[1] + 1}

RECURSIVE SetToSeq(_)
\* the elements of a set of edges in a fixed order
SetToSeq(S) ==
    IF S = {} THEN <<>>
    ELSE LET x == CHOOSE x \in S : \A y \in S : x[1] < y[1] \/ (x[1] = y[1] /\ x[2] <= y[2])
         IN <<x>> \o SetToSeq(S \ {x})

RECURSIVE build_graph(_, _, _)
\* add_node for every resource, then add_dependency for every edge
build_graph(g, ns, es) ==
    IF ns # <<>> THEN build_graph(add_node(g, Head(ns)), Tail(ns), es)
    ELSE IF es # <<>> THEN build_graph(add_dependency(g, Head(es)[1], Head(es)[2]), ns, Tail(es))
         ELSE g

AllSpecs == [r \in Rid |-> r]

DeployInit ==
    /\ \E E \in SUBSET DepPairs :
         /\ Cardinality(E) <= MaxDeps
         /\ LET g == build_graph(EmptyGraph, AllSpecs, SetToSeq(E))
            IN nodes = g[1] /\ graph = g[2] /\ reverse_graph = g[3]
         /\ \E wg \in BOOLEAN :
              /\ (~wg => E = {})
              /\ \E fr \in BOOLEAN, rb \in BOOLEAN :
                   dcfg = [force_redeploy |-> fr, enable_rollback |-> rb, with_graph |-> wg]
    /\ res = NoRes
    /\ \E n \in 0..MaxSpecs : run = [NoRun EXCEPT !.deployments = SubSeq(AllSpecs, 1, n)]

\* deploy_resources without a dependency graph, every backend call logged
DeployCallsInit ==
    /\ LET g == build_graph(EmptyGraph, AllSpecs, <<>>)
       IN nodes = g[1] /\ graph = g[2] /\ reverse_graph = g[3]
    /\ \E fr \in BOOLEAN, rb \in BOOLEAN :
         dcfg = [force_redeploy |-> fr, enable_rollback |-> rb, with_graph |-> FALSE]
    /\ res = NoRes
    /\ \E n \in 0..MaxSpecs :
         run = [NoRun EXCEPT !.deployments = SubSeq(AllSpecs, 1, n), !.tracing = TRUE]

\* the deployer when the behaviour is about another component
DeployIdle ==
    /\ dcfg = [force_redeploy |-> FALSE, enable_rollback |-> TRUE, with_graph |-> FALSE]
    /\ run = NoRun

DeployNext ==
    \/ DeployResources
    \/ CheckResourceExists
    \/ ValidateTemplate
    \/ DeployTemplate
    \/ DeleteResource

\* -------------------------------------------- ResourceDeployer: admission gate
MaxBatch == 3          \* specs of one batch: 0..MaxBatch
MaxConcurrent == 2     \* max_concurrent in 1..MaxConcurrent
MaxBackendCalls == 2   \* suspension points of one deployment inside the gate

\* max_concurrent: int = 4
default_max_concurrent == 4

\* asyncio.Semaphore(max_concurrent) and one task per spec of the batch, as
\* _deploy_batch creates them.  admitted is bookkeeping: the task has been
\* inside the gate.  deployed is the deployer's list of deployed specs, which
\* the tasks append to; to_delete is what rollback walks through.
NewGate(max_concurrent, n) ==
    [max_concurrent |-> max_concurrent, value |-> max_concurrent, waiters |-> <<>>,
     task |-> [t \in 1..n |-> [pc |-> "created", calls |-> 0, admitted |-> FALSE]],
     deployed |-> <<>>, phase |-> "deploying", to_delete |-> <<>>]

\* Semaphore.locked(): no slot is free, or somebody is queueing already
locked(g) == g.value = 0 \/ g.waiters # <<>>

\* a gate that lets every task in at once
acquire_unbounded(g, t) ==
    [g EXCEPT !.task[t].pc = "inside", !.task[t].admitted = TRUE]

\* `async with self._deployment_sem`, entry: take a slot, or queue for one
acquire(g, t) ==
    IF ~locked(g)
    THEN [g EXCEPT !.value = @ - 1, !.task[t].pc = "inside", !.task[t].admitted = TRUE]
    ELSE [g EXCEPT !.waiters = Append(@, t), !.task[t].pc = "waiting"]

\* `async with self._deployment_sem`, exit: the slot goes to the task that
\* has queued longest, or becomes free
release(g) ==
    IF g.waiters # <<>>
    THEN LET w == Head(g.waiters)
         IN [g EXCEPT !.waiters = Tail(@), !.task[w].pc = "inside",
                      !.task[w].admitted = TRUE]
    ELSE [g EXCEPT !.value = @ + 1]

BatchTasks == DOMAIN gate.task

\* the event loop runs a task of the batch for the first time: it reaches
\* the gate
StartTask(t) ==
    /\ t \in BatchTasks
    /\ gate.task[t].pc = "created"
    /\ gate' = acquire(gate, t)
    /\ UNCHANGED aOthers

\* a backend call made inside the gate (get_resource, validate_template,
\* deploy_template, a retry sleep) returns and the deployment goes on
BackendCall(t) ==
    /\ t \in BatchTasks
    /\ gate.task[t].pc = "inside"
    /\ gate.task[t].calls < MaxBackendCalls
    /\ gate' = [gate EXCEPT !.task[t].calls = @ + 1]
    /\ UNCHANGED aOthers

\* an append that starts from an empty list: what the tasks that finished
\* before have appended is lost
record_deployed_overwriting(g, t) == [g EXCEPT !.deployed = <<t>>]

\* `self._deployed_resources.append(deployment)`: between the backend call
\* that succeeded and the append the task does not suspend
record_deployed(g, t) == [g EXCEPT !.deployed = Append(@, t)]

\* _deploy_single returns True or False and leaves the gate
FinishTask(t) ==
    /\ t \in BatchTasks
    /\ gate.task[t].pc = "inside"
    /\ \E ok \in BOOLEAN :
         LET g1 == IF ok THEN record_deployed(gate, t) ELSE gate
         IN gate' = release([g1 EXCEPT !.task[t].pc = IF ok THEN "succeeded" ELSE "failed",
                                       !.task[t].calls = 0])
    /\ UNCHANGED aOthers

\* asyncio.gather has returned the results of the batch: with a failed task
\* and rollback enabled, _rollback_deployments starts on the list as it is
BatchDone ==
    /\ gate.phase = "deploying"
    /\ \A t \in BatchTasks : gate.task[t].pc \in {"succeeded", "failed"}
    /\ \E enable_rollback \in BOOLEAN :
         LET failed == {t \in BatchTasks : gate.task[t].pc = "failed"}
         IN gate' = IF failed # {} /\ enable_rollback /\ gate.deployed # <<>>
                    THEN [gate EXCEPT !.phase = "rollback",
                                      !.to_delete = rollback_order(gate.deployed)]
                    ELSE [gate EXCEPT !.phase = "done"]
    /\ UNCHANGED aOthers

GateInit ==
    \E max_concurrent \in 1..MaxConcurrent, n \in 0..MaxBatch :
        gate = NewGate(max_concurrent, n)

\* the gate when the behaviour is about another component
GateIdle == gate = NewGate(default_max_concurrent, 0)

GateNext ==
    \/ \E t \in 1..MaxBatch : StartTask(t)
    \/ \E t \in 1..MaxBatch : BackendCall(t)
    \/ \E t \in 1..MaxBatch : FinishTask(t)
    \/ BatchDone

\* ------------------------------------------------------- ExponentialBackoff
MaxAttempts == 3       \* max_attempts of a policy in 0..MaxAttempts
MaxErrors == 2         \* distinct errors / results of the retried function

\* last_error = None
NoError == 0

\* ExponentialBackoff.__init__ and the locals of one execute_* call.  calls is
\* bookkeeping: the outcome of every invocation of func, in order.
NewExecution(n, mode) ==
    [max_attempts |-> n, mode |-> mode, pc |-> "idle", attempt |-> 0,
     last_error |-> NoError, result |-> 0,
     raised |-> "none", exc_attempts |-> 0, exc_last_error |-> NoError,
     calls |-> <<>>]

\* `for attempt in range(self.max_attempts + 1)`
loop_continues_one_more(r, a) == a <= r.max_attempts

\* `for attempt in range(self.max_attempts)`: is there a pass number a?
loop_continues(r, a) == a < r.max_attempts

\* "If not last attempt": attempt < self.max_attempts - 1
attempts_remain(r) == r.attempt < r.max_attempts - 1

\* after the for loop: "All attempts exhausted"
exhausted(r) ==
    IF r.last_error = NoError
    THEN [r EXCEPT !.pc = "raised", !.raised = "RuntimeError"]
    ELSE [r EXCEPT !.pc = "raised", !.raised = "RetryExhaustedError",
                   !.exc_attempts = r.max_attempts,
                   !.exc_last_error = r.last_error]

\* the head of the for loop after pass r.attempt
next_pass(r) ==
    IF loop_continues(r, r.attempt + 1)
    THEN [r EXCEPT !.attempt = @ + 1, !.pc = "invoke"]
    ELSE exhausted(r)

\* execute_async / execute_sync up to the head of the for loop
Execute ==
    /\ rp.pc = "idle"
    /\ rp' = IF loop_continues(rp, 0) THEN [rp EXCEPT !.pc = "invoke"]
             ELSE exhausted(rp)
    /\ UNCHANGED rOthers

\* one pass of the loop body: func(*args) returns v or raises error v
Invoke ==
    /\ rp.pc = "invoke"
    /\ \E ok \in BOOLEAN, v \in 1..MaxErrors :
         LET r1 == [rp EXCEPT !.calls = Append(@, [ok |-> ok, val |-> v])]
         IN rp' = IF ok
                  THEN [r1 EXCEPT !.pc = "returned", !.result = v]
                  ELSE LET r2 == [r1 EXCEPT !.last_error = v]
                       IN IF attempts_remain(r2)
                          THEN [r2 EXCEPT !.pc = "sleep"]
                          ELSE next_pass(r2)
    /\ UNCHANGED rOthers

\* asyncio.sleep(delay) / time.sleep(delay) is over: next pass of the loop
Sleep ==
    /\ rp.pc = "sleep"
    /\ rp' = next_pass(rp)
    /\ UNCHANGED rOthers

RetryInit ==
    \E n \in 0..MaxAttempts, mode \in {"async", "sync"} : rp = NewExecution(n, mode)

\* the policy when the behaviour is about another component
RetryIdle == rp = NewExecution(1, "sync")

RetryNext ==
    \/ Execute
    \/ Invoke
    \/ Sleep

\* ------------------------------------------- ExponentialBackoff.get_delay
MaxBaseDelay == 3      \* base_delay in 0..MaxBaseDelay (seconds)
MaxDelayCap == 5       \* max_delay in 0..MaxDelayCap (seconds)
MaxDelayAttempt == 3   \* small attempt numbers 0..MaxDelayAttempt
MaxDelayCalls == 2     \* get_delay calls made on one policy

\* sys.float_info.max_exp: `self.base_delay * (2 ** attempt)` with a float
\* base_delay converts the int 2 ** attempt to a float, and the conversion
\* raises OverflowError from 2 ** 1024 on
float_max_exp == 1024

converts_to_float(attempt) == attempt < float_max_exp

\* ExponentialBackoff.__init__; calls is bookkeeping: every get_delay call
\* made so far with its outcome
NewPolicy(base_delay, max_delay, jitter, base_is_float) ==
    [base_delay |-> base_delay, max_delay |-> max_delay, jitter |-> jitter,
     base_is_float |-> base_is_float, calls |-> <<>>]

RECURSIVE capped_power(_, _, _)
\* min(delay * 2 ** k, cap) for delay >= 0 and cap >= 0.  The product is
\* formed by doubling; once it has reached cap (or is 0) more doubling does
\* not change the minimum, which is how the value stays exact for a large k.
capped_power(delay, k, cap) ==
    IF k = 0 \/ delay = 0 \/ delay >= cap THEN Min(delay, cap)
    ELSE capped_power(2 * delay, k - 1, cap)

\* the attempt numbers get_delay is called with: small ones and the two
\* around the float conversion limit
DelayAttempts == (0..MaxDelayAttempt) \cup {float_max_exp - 1, float_max_exp}

\* random.uniform(-jitter_amount, jitter_amount) as a fraction of
\* jitter_amount: both ends and the middle of the interval
JitterDraws == {-1, 0, 1}

Max(a, b) == IF a >= b THEN a ELSE b

\* get_delay(attempt) on policy p; u is the draw of random.uniform
get_delay(p, attempt, u) ==
    IF p.base_is_float /\ ~converts_to_float(attempt)
    THEN [attempt |-> attempt, raised |-> "OverflowError", delay |-> 0]
    ELSE LET delay         == capped_power(p.base_delay, attempt, p.max_delay)
             jitter_amount == delay \div 4
             jittered      == IF p.jitter THEN delay + u * jitter_amount ELSE delay
         IN [attempt |-> attempt, raised |-> "none", delay |-> Max(0, jittered)]

GetDelay ==
    /\ Len(gd.calls) < MaxDelayCalls
    /\ \E attempt \in DelayAttempts, u \in JitterDraws :
         gd' = [gd EXCEPT !.calls = Append(@, get_delay(gd, attempt, u))]
    /\ UNCHANGED yOthers

DelayInit ==
    \E base_delay \in 0..MaxBaseDelay, max_delay \in 0..MaxDelayCap,
       jitter \in BOOLEAN, base_is_float \in BOOLEAN :
        gd = NewPolicy(base_delay, max_delay, jitter, base_is_float)

\* the policy when the behaviour is about another component
DelayIdle == gd = NewPolicy(1, MaxDelayCap, TRUE, TRUE)

DelayNext == GetDelay

\* ----------------------------------------------------------- FixOrchestrator
MaxFix == 2            \* max_fix_attempts of an orchestrator in 0..MaxFix
MaxFixCalls == 4       \* attempt_fix calls made on one orchestrator

\* TestStatus, in the order of the if/elif chain of _classify_errors
FailingStatuses == <<"timeout", "auth_error", "server_error", "failure">>

TestStatus == Range(FailingStatuses) \cup {"success", "skipped"}

\* the keyword sets of _classify_deployment_error in the order they are tried,
\* with the category of each
KeywordGroups ==
    << [kw |-> "template",      category |-> "template_issue"],
       [kw |-> "dependency",    category |-> "dependency_issue"],
       [kw |-> "configuration", category |-> "configuration_issue"],
       [kw |-> "network",       category |-> "network_issue"],
       [kw |-> "auth",          category |-> "auth_error"] >>

\* _classify_deployment_error; a message is the set of keyword sets it matches
classify_deployment_error(msg) ==
    LET hits == {i \in 1..Len(KeywordGroups) : KeywordGroups[i].kw \in msg}
    IN IF hits = {} THEN "unknown"
       ELSE KeywordGroups[CHOOSE i \in hits : \A j \in hits : i <= j].category

\* the category _classify_errors files a test result under ("none": no branch)
classify_status(st) ==
    CASE st = "timeout"      -> "timeout"
      [] st = "auth_error"   -> "auth_error"
      [] st = "server_error" -> "server_error"
      [] st = "failure"      -> "unknown"
      [] OTHER               -> "none"

RECURSIVE dict_keys(_, _)
\* the keys of the dict built by setdefault(category, []) over cs, in
\* insertion order
dict_keys(cs, acc) ==
    IF cs = <<>> THEN acc
    ELSE dict_keys(Tail(cs),
                   IF Head(cs) = "none" \/ Head(cs) \in Range(acc) THEN acc
                   ELSE Append(acc, Head(cs)))

\* _classify_errors: the categories found, test results first
classify_errors(test_results, deployment_errors) ==
    dict_keys([i \in 1..Len(test_results) |-> classify_status(test_results[i])]
              \o [i \in 1..Len(deployment_errors) |->
                    classify_deployment_error(deployment_errors[i])],
              <<>>)

\* a strategy map that sends UNKNOWN to Retry
select_fix_strategy_retries_unknown(category) ==
    IF category \in {"timeout", "network_issue", "unknown"} THEN "retry"
    ELSE IF category \in {"auth_error", "configuration_issue"} THEN "reconfigure"
    ELSE IF category \in {"server_error", "template_issue"} THEN "update_template"
    ELSE "update_dependencies"

\* _select_fix_strategy
select_fix_strategy(category) ==
    CASE category = "timeout"             -> "retry"
      [] category = "auth_error"          -> "reconfigure"
      [] category = "server_error"        -> "update_template"
      [] category = "template_issue"      -> "update_template"
      [] category = "dependency_issue"    -> "update_dependencies"
      [] category = "configuration_issue" -> "reconfigure"
      [] category = "network_issue"       -> "retry"
      [] category = "unknown"             -> "manual_intervention"
      [] OTHER                            -> "manual_intervention"

\* FixOrchestrator.__init__
NewOrchestrator(n, tf) ==
    [max_fix_attempts |-> n, enable_template_fixes |-> tf,
     fix_attempts |-> <<>>, circuit_breaker_open |-> FALSE]

\* the outcome of one strategy; tool_ok: the categories for which the
\* `specify bicep` subprocess of fix_template_issue would succeed
strategy_success(f, category, tool_ok) ==
    LET strategy == select_fix_strategy(category)
    IN CASE strategy = "update_template" ->
                 f.enable_template_fixes /\ category \in tool_ok
         [] strategy = "update_dependencies" -> FALSE
         [] strategy = "reconfigure" -> FALSE
         [] strategy = "retry" -> TRUE
         [] OTHER -> FALSE

\* a log that keeps the failed attempts only
record_attempt_if_failed(f, attempt) ==
    IF attempt.success THEN f
    ELSE [f EXCEPT !.fix_attempts = Append(@, attempt)]

\* "Record fix attempt": self.fix_attempts.append(fix_attempt)
record_attempt(f, attempt) == [f EXCEPT !.fix_attempts = Append(@, attempt)]

RECURSIVE dispatch_fixes(_, _, _, _)
\* _dispatch_fixes: one strategy and one FixAttempt per category
dispatch_fixes(f, cats, tool_ok, all_ok) ==
    IF cats = <<>> THEN [f |-> f, ret |-> all_ok]
    ELSE LET category == Head(cats)
             success  == strategy_success(f, category, tool_ok)
             attempt  == [error_category |-> category,
                          fix_strategy |-> select_fix_strategy(category),
                          success |-> success]
         IN dispatch_fixes(record_attempt(f, attempt),
                           Tail(cats), tool_ok, all_ok /\ success)

\* attempt_fix: the orchestrator afterwards, the value returned, and what
\* the call did (classified: _classify_errors ran; dispatched: strategies run)
attempt_fix(f, test_results, deployment_errors, tool_ok) ==
    IF f.circuit_breaker_open
    THEN [f |-> f, ret |-> FALSE, classified |-> FALSE, dispatched |-> 0]
    ELSE IF Len(f.fix_attempts) >= f.max_fix_attempts
    THEN [f |-> [f EXCEPT !.circuit_breaker_open = TRUE],
          ret |-> FALSE, classified |-> FALSE, dispatched |-> 0]
    ELSE LET cats == classify_errors(test_results, deployment_errors)
         IN IF cats = <<>>
            THEN [f |-> f, ret |-> TRUE, classified |-> TRUE, dispatched |-> 0]
            ELSE LET r == dispatch_fixes(f, cats, tool_ok, TRUE)
                 IN [f |-> r.f, ret |-> r.ret, classified |-> TRUE,
                     dispatched |-> Len(cats)]

\* reset_circuit_breaker that only clears the flag
reset_circuit_breaker_keeps_log(f) ==
    [f EXCEPT !.circuit_breaker_open = FALSE]

\* reset_circuit_breaker
reset_circuit_breaker(f) ==
    [f EXCEPT !.circuit_breaker_open = FALSE, !.fix_attempts = <<>>]

\* get_fix_summary: total_attempts, successful_fixes
get_fix_summary(f) ==
    [total_attempts |-> Len(f.fix_attempts),
     successful_fixes |->
         Cardinality({i \in 1..Len(f.fix_attempts) : f.fix_attempts[i].success})]

\* the categories whose fix runs the `specify bicep` subprocess
ToolCategories == {"server_error", "template_issue"}

\* every status once, in a fixed order
StatusOrder == FailingStatuses \o <<"success", "skipped">>

\* test results holding exactly the statuses S
ResultsWith(S) == SelectSeq(StatusOrder, LAMBDA st : st \in S)

\* deployment_errors: None / [] or one message; a message matches no keyword
\* set or one of them
DeploymentErrorInputs ==
    {<<>>, << {} >>} \cup {<< {KeywordGroups[i].kw} >> : i \in 1..Len(KeywordGroups)}

\* the test results of one attempt_fix call: none, passing ones, one failing
\* status, or every status
ResultInputs ==
    {{}, {"success", "skipped"}, TestStatus} \cup
    {{st} : st \in Range(FailingStatuses)}

\* the arguments of one attempt_fix call: test results alone, one deployment
\* error alone, or one failing status next to an authentication error
FixInputs ==
    {[statuses |-> S, deployment_errors |-> <<>>] : S \in ResultInputs} \cup
    {[statuses |-> {}, deployment_errors |-> de] : de \in DeploymentErrorInputs} \cup
    {[statuses |-> {st}, deployment_errors |-> << {"auth"} >>] :
        st \in Range(FailingStatuses)}

\* bookkeeping about the last operation on the orchestrator.  given,
\* categories: number and set of the error categories present in the
\* arguments of the call
NoLast == [kind |-> "none", ret |-> FALSE, classified |-> FALSE,
           dispatched |-> 0, given |-> 0, categories |-> {}]

\* bookkeeping for one attempt_fix call with outcome r
LastOf(r, test_results, deployment_errors) ==
    [kind |-> "attempt_fix", ret |-> r.ret, classified |-> r.classified,
     dispatched |-> r.dispatched,
     given |-> Len(classify_errors(test_results, deployment_errors)),
     categories |-> Range(classify_errors(test_results, deployment_errors))]

\* bookkeeping: how far the orchestrator is along "a call was rejected by the
\* open breaker, reset_circuit_breaker was called, a call dispatched again"
TrailAfterCall(f, trail, r) ==
    IF f.circuit_breaker_open THEN "rejected"
    ELSE IF trail = "reset" /\ r.dispatched > 0 THEN "recovered"
    ELSE "none"

TrailAfterReset(trail) == IF trail \in {"rejected", "reset"} THEN "reset" ELSE "none"

\* a client calls attempt_fix(test_results, deployment_errors)
AttemptFix ==
    /\ fo.ncalls < MaxFixCalls
    /\ \E arg \in FixInputs :
         LET tr   == ResultsWith(arg.statuses)
             de   == arg.deployment_errors
             cats == classify_errors(tr, de)
         IN \E tool_ok \in SUBSET (Range(cats) \cap ToolCategories) :
              LET r == attempt_fix(fo.o, tr, de, tool_ok)
              IN fo' = [o |-> r.f, last |-> LastOf(r, tr, de),
                        ncalls |-> fo.ncalls + 1,
                        trail |-> TrailAfterCall(fo.o, fo.trail, r)]
    /\ UNCHANGED fOthers

\* a client calls reset_circuit_breaker()
ResetCircuitBreaker ==
    /\ fo' = [fo EXCEPT !.o = reset_circuit_breaker(fo.o),
                        !.last = [NoLast EXCEPT !.kind = "reset"],
                        !.trail = TrailAfterReset(@)]
    /\ UNCHANGED fOthers

FixInit ==
    \E n \in 0..MaxFix, tf \in BOOLEAN :
        fo = [o |-> NewOrchestrator(n, tf), last |-> NoLast, ncalls |-> 0,
              trail |-> "none"]

\* the orchestrator before a session has built one, or when the behaviour is
\* about another component
FixIdle ==
    fo = [o |-> NewOrchestrator(0, FALSE), last |-> NoLast, ncalls |-> 0,
          trail |-> "none"]

FixNext ==
    \/ AttemptFix
    \/ ResetCircuitBreaker

\* ------------------------------------- FixOrchestrator: deployment errors
MaxFragments == 2      \* pieces one deployment error message is made of

UpperCase == <<"A", "B", "C", "D", "E", "F", "G", "H", "I", "J", "K", "L", "M",
               "N", "O", "P", "Q", "R", "S", "T", "U", "V", "W", "X", "Y", "Z">>

LowerCase == <<"a", "b", "c", "d", "e", "f", "g", "h", "i", "j", "k", "l", "m",
               "n", "o", "p", "q", "r", "s", "t", "u", "v", "w", "x", "y", "z">>

\* str.lower() on a sequence of characters
lower(text) ==
    [i \in 1..Len(text) |->
       IF \E k \in 1..Len(UpperCase) : UpperCase[k] = text[i]
       THEN LowerCase[CHOOSE k \in 1..Len(UpperCase) : UpperCase[k] = text[i]]
       ELSE text[i]]

\* `keyword in text`: keyword is a substring of text
contains(text, keyword) ==
    \E i \in 1..(Len(text) - Len(keyword) + 1) :
        SubSeq(text, i, i + Len(keyword) - 1) = keyword

\* the keywords of one keyword set of _classify_deployment_error, as
\* sequences of characters
Keywords(kw) ==
    CASE kw = "template" ->
                          {<<"t", "e", "m", "p", "l", "a", "t", "e">>,
                           <<"b", "i", "c", "e", "p">>,
                           <<"s", "y", "n", "t", "a", "x">>,
                           <<"v", "a", "l", "i", "d", "a", "t", "i", "o", "n">>,
                           <<"s", "c", "h", "e", "m", "a">>}
      [] kw = "dependency" ->
                          {<<"d", "e", "p", "e", "n", "d", "e", "n", "c", "y">>,
                           <<"r", "e", "s", "o", "u", "r", "c", "e", " ", "n", "o", "t", " ", "f", "o", "u", "n", "d">>,
                           <<"d", "o", "e", "s", " ", "n", "o", "t", " ", "e", "x", "i", "s", "t">>}
      [] kw = "configuration" ->
                          {<<"c", "o", "n", "f", "i", "g", "u", "r", "a", "t", "i", "o", "n">>,
                           <<"s", "e", "t", "t", "i", "n", "g">>,
                           <<"p", "a", "r", "a", "m", "e", "t", "e", "r">>,
                           <<"i", "n", "v", "a", "l", "i", "d", " ", "v", "a", "l", "u", "e">>}
      [] kw = "network" ->
                          {<<"n", "e", "t", "w", "o", "r", "k">>,
                           <<"t", "i", "m", "e", "o", "u", "t">>,
                           <<"c", "o", "n", "n", "e", "c", "t", "i", "o", "n">>,
                           <<"u", "n", "r", "e", "a", "c", "h", "a", "b", "l", "e">>}
      [] kw = "auth" ->
                          {<<"a", "u", "t", "h">>,
                           <<"p", "e", "r", "m", "i", "s", "s", "i", "o", "n">>,
                           <<"f", "o", "r", "b", "i", "d", "d", "e", "n">>,
                           <<"u", "n", "a", "u", "t", "h", "o", "r", "i", "z", "e", "d">>}
      [] OTHER -> {}

\* pieces of deployment error messages; hits: the keyword sets the piece
\* matches when Python evaluates `keyword in piece.lower()`
Fragments ==
    << [text |-> <<"T", "e", "m", "p", "l", "a", "t", "e">>,
        hits |-> {"template"}],
       [text |-> <<"S", "C", "H", "E", "M", "A">>,
        hits |-> {"template"}],
       [text |-> <<"d", "o", "e", "s", " ", "n", "o", "t", " ", "e", "x", "i", "s", "t">>,
        hits |-> {"dependency"}],
       [text |-> <<"D", "e", "p", "e", "n", "d", "e", "n", "c", "y">>,
        hits |-> {"dependency"}],
       [text |-> <<"I", "n", "v", "a", "l", "i", "d", " ", "V", "a", "l", "u", "e">>,
        hits |-> {"configuration"}],
       [text |-> <<"S", "e", "t", "t", "i", "n", "g", "s">>,
        hits |-> {"configuration"}],
       [text |-> <<"U", "n", "r", "e", "a", "c", "h", "a", "b", "l", "e">>,
        hits |-> {"network"}],
       [text |-> <<"F", "o", "r", "b", "i", "d", "d", "e", "n">>,
        hits |-> {"auth"}],
       [text |-> <<"A", "u", "t", "h", "e", "n", "t", "i", "c", "a", "t", "i", "o", "n", " ", "T", "i", "m", "e", "o", "u", "t">>,
        hits |-> {"network", "auth"}],
       [text |-> <<"q", "u", "o", "t", "a">>,
        hits |-> {}] >>

\* the comparison made on the message as written, without .lower()
keyword_hits_case_sensitive(error_message) ==
    {KeywordGroups[i].kw : i \in {j \in 1..Len(KeywordGroups) :
        \E keyword \in Keywords(KeywordGroups[j].kw) :
            contains(error_message, keyword)}}

\* the keyword sets for which any(keyword in error_lower ...) is true
keyword_hits(error_message) ==
    LET error_lower == lower(error_message)
    IN {KeywordGroups[i].kw : i \in {j \in 1..Len(KeywordGroups) :
          \E keyword \in Keywords(KeywordGroups[j].kw) :
              contains(error_lower, keyword)}}

RECURSIVE join(_)
\* the pieces with the indices parts, separated by blanks
join(parts) ==
    IF parts = <<>> THEN <<>>
    ELSE IF Len(parts) = 1 THEN Fragments[parts[1]].text
    ELSE Fragments[parts[1]].text \o <<" ">> \o join(Tail(parts))

RECURSIVE SeqsUpTo(_, _)
\* the sequences over S of length at most n
SeqsUpTo(S, n) ==
    IF n = 0 THEN {<<>>}
    ELSE LET shorter == SeqsUpTo(S, n - 1)
         IN shorter \cup {Append(t, x) : t \in shorter, x \in S}

\* a call _classify_deployment_error(error_message) not yet made; parts is
\* bookkeeping: the pieces the message was made of
NewClassification(parts) ==
    [pc |-> "idle", parts |-> parts, error_message |-> join(parts),
     category |-> "none"]

\* _classify_deployment_error(error_message) runs
ClassifyDeploymentError ==
    /\ ce.pc = "idle"
    /\ ce' = [ce EXCEPT !.pc = "returned",
                        !.category = classify_deployment_error(
                                        keyword_hits(ce.error_message))]
    /\ UNCHANGED cOthers

ClassifyInit ==
    \E parts \in SeqsUpTo(1..Len(Fragments), MaxFragments) :
        ce = NewClassification(parts)

\* no classification call when the behaviour is about another component
ClassifyIdle == ce = NewClassification(<<>>)

ClassifyNext == ClassifyDeploymentError

\* --------------------------------------------------------- ValidationSession
\* ValidationSummary of a new session (the fields the workflow decides), and
\* the session's own fields.  testing_runs, fixing_runs and raised_in are
\* bookkeeping: stage executions so far, and the stage whose exception ended
\* the run.
NewSession(n, ef) ==
    [max_fix_attempts |-> n, enable_fixes |-> ef,
     pc |-> "idle", attempt |-> 0, test_results |-> <<>>,
     current_stage |-> "initializing", stages_completed |-> <<>>,
     tests_failed |-> 0, fix_attempts |-> 0, fixes_successful |-> 0,
     success |-> FALSE, error_message |-> "none",
     end_time |-> FALSE, duration_seconds |-> FALSE,
     testing_runs |-> 0, fixing_runs |-> 0, raised_in |-> "none"]

\* _transition_to_stage
transition_to_stage(ss, stage) == [ss EXCEPT !.current_stage = stage]

\* _complete_stage
complete_stage(ss, stage) == [ss EXCEPT !.stages_completed = Append(@, stage)]

\* the finally block of run(), and its return
finalize(ss) ==
    [ss EXCEPT !.end_time = TRUE, !.duration_seconds = TRUE, !.pc = "returned"]

\* an except block that leaves current_stage where the exception found it
run_failed_keeps_stage(ss, e) ==
    finalize([ss EXCEPT !.success = FALSE, !.error_message = e,
                        !.raised_in = ss.current_stage])

\* run(): the except block, for exception e raised in the current stage
run_failed(ss, e) ==
    finalize([ss EXCEPT !.current_stage = "failed", !.success = FALSE,
                        !.error_message = e, !.raised_in = ss.current_stage])

\* success only when the results held at the end have no failure
run_completed_if_passing(ss) ==
    finalize([transition_to_stage(ss, "completed") EXCEPT
                 !.success = \A i \in 1..Len(ss.test_results) :
                                ss.test_results[i] \in {"success", "skipped"}])

\* run() after _run_testing_and_fixing_stages returned
run_completed(ss) ==
    finalize([transition_to_stage(ss, "completed") EXCEPT !.success = TRUE])

\* failed_tests: the results that are neither SUCCESS nor SKIPPED
failed_tests(results) ==
    SelectSeq(results, LAMBDA st : st \notin {"success", "skipped"})

\* _run_testing_stage is entered (the loop of
\* _run_testing_and_fixing_stages starts a pass)
enter_testing(ss) == [transition_to_stage(ss, "testing") EXCEPT !.pc = "testing"]

\* run() is called: _run_discovery_stage up to discover_projects()
Run ==
    /\ sess.pc = "idle"
    /\ sess' = [transition_to_stage(sess, "discovering") EXCEPT !.pc = "discovery"]
    /\ UNCHANGED <<fo, sOthers>>

\* _run_discovery_stage from discover_projects() on, then the entry of
\* _run_analysis_stage
DiscoveryStage ==
    /\ sess.pc = "discovery"
    /\ \E outcome \in {"projects", "no projects", "raises"} :
         sess' = CASE outcome = "projects" ->
                        [transition_to_stage(complete_stage(sess, "discovering"),
                                             "analyzing") EXCEPT !.pc = "analysis"]
                   [] outcome = "no projects" ->
                        run_failed(sess, "No projects discovered in the directory")
                   [] OTHER -> run_failed(sess, "discovery error")
    /\ UNCHANGED <<fo, sOthers>>

\* _run_analysis_stage from analyze_project() on, then the entry of
\* _run_deployment_stage
AnalysisStage ==
    /\ sess.pc = "analysis"
    /\ \E raises \in BOOLEAN :
         sess' = IF raises THEN run_failed(sess, "analysis error")
                 ELSE [transition_to_stage(complete_stage(sess, "analyzing"),
                                           "deploying") EXCEPT !.pc = "deployment"]
    /\ UNCHANGED <<fo, sOthers>>

\* _run_deployment_stage from the construction of the deployer on (the
\* deployment list is empty; _store_secrets may raise), then
\* _run_testing_and_fixing_stages up to the first _run_testing_stage
DeploymentStage ==
    /\ sess.pc = "deployment"
    /\ \E raises \in BOOLEAN :
         IF raises
         THEN /\ sess' = run_failed(sess, "deployment error")
              /\ UNCHANGED fo
         ELSE /\ sess' = enter_testing([complete_stage(sess, "deploying")
                                          EXCEPT !.attempt = 0])
              /\ fo' = [o |-> NewOrchestrator(sess.max_fix_attempts, sess.enable_fixes),
                        last |-> NoLast, ncalls |-> 0, trail |-> "none"]
    /\ UNCHANGED sOthers

\* `if not failed_tests` turned around: every Testing stage counts as failed
has_failures_always(results) == TRUE

\* `if not failed_tests: break`, negated
has_failures(results) == failed_tests(results) # <<>>

\* the Fixing stage on every pass, the last one included
may_fix_always(ss) == TRUE

\* "Fix failures (if not last attempt)": attempt < self.max_fix_attempts
may_fix(ss) == ss.attempt < ss.max_fix_attempts

\* `for attempt in range(self.max_fix_attempts + 2)`
fix_loop_continues_one_more(ss, a) == a < ss.max_fix_attempts + 2

\* `for attempt in range(self.max_fix_attempts + 1)`: is there a pass a?
fix_loop_continues(ss, a) == a < ss.max_fix_attempts + 1

\* the head of the fix loop after pass ss.attempt
next_fix_pass(ss) ==
    IF fix_loop_continues(ss, ss.attempt + 1)
    THEN enter_testing([ss EXCEPT !.attempt = @ + 1])
    ELSE run_completed(ss)

\* the fix loop from the return of _run_testing_stage to the next stage
after_testing(ss) ==
    IF ~has_failures(ss.test_results) THEN run_completed(ss)
    ELSE IF may_fix(ss)
         THEN [transition_to_stage(ss, "fixing") EXCEPT !.pc = "fixing"]
         ELSE next_fix_pass(ss)

\* the fix loop without the look at the orchestrator's breaker
after_fixing_ignores_breaker(ss, f) == next_fix_pass(ss)

\* the fix loop from the return of _run_fixing_stage to the next stage:
\* `if self.fix_orchestrator.circuit_breaker_open: break`
after_fixing(ss, f) ==
    IF f.circuit_breaker_open THEN run_completed(ss) ELSE next_fix_pass(ss)

\* the statuses among the results of one Testing stage: all passing, or
\* some failing ones with or without a passing one
TestOutcomes ==
    {{"success", "skipped"}} \cup
    {F \cup P : F \in (SUBSET Range(FailingStatuses)) \ {{}},
                P \in {{}, {"success"}}}

\* _run_testing_stage from discover_endpoints() on, then the fix loop up to
\* the next stage.  Without endpoints the stage returns early and
\* self.test_results keeps the results of the pass before.
TestingStage ==
    /\ sess.pc = "testing"
    /\ LET s0 == [sess EXCEPT !.testing_runs = @ + 1]
       IN \/ sess' = run_failed(s0, "testing error")
          \/ sess' = after_testing(complete_stage(s0, "testing"))
          \/ \E S \in TestOutcomes :
               LET results == ResultsWith(S)
                   s1 == [s0 EXCEPT !.test_results = results,
                                    !.tests_failed = Len(failed_tests(results))]
               IN sess' = after_testing(complete_stage(s1, "testing"))
    /\ UNCHANGED <<fo, sOthers>>

\* _run_fixing_stage from attempt_fix() on, then the fix loop up to the next
\* stage
FixingStage ==
    /\ sess.pc = "fixing"
    /\ LET failed == failed_tests(sess.test_results)
           cats   == classify_errors(failed, <<>>)
       IN \E tool_ok \in SUBSET (Range(cats) \cap ToolCategories) :
            LET r  == attempt_fix(fo.o, failed, <<>>, tool_ok)
                fs == get_fix_summary(r.f)
                s1 == complete_stage(
                        [sess EXCEPT !.fix_attempts = fs.total_attempts,
                                     !.fixes_successful = fs.successful_fixes,
                                     !.fixing_runs = @ + 1],
                        "fixing")
            IN /\ fo' = [o |-> r.f, last |-> LastOf(r, failed, <<>>),
                         ncalls |-> fo.ncalls + 1,
                         trail |-> TrailAfterCall(fo.o, fo.trail, r)]
               /\ sess' = after_fixing(s1, r.f)
    /\ UNCHANGED sOthers

\* get_progress(): len(stages_completed) / 6 * 100 is kept as the fraction
\* num / den
get_progress(ss) ==
    [current_stage |-> ss.current_stage,
     stages_completed |-> ss.stages_completed,
     progress_percentage |-> [num |-> Len(ss.stages_completed) * 100, den |-> 6]]


MaxSessionFix == 3     \* max_fix_attempts of a session in 0..MaxSessionFix

SessionInit ==
    /\ \E n \in 0..MaxSessionFix, ef \in BOOLEAN : sess = NewSession(n, ef)
    /\ FixIdle

\* the session when the behaviour is about another component
SessionIdle == sess = NewSession(0, FALSE)

SessionNext ==
    \/ Run
    \/ DiscoveryStage
    \/ AnalysisStage
    \/ DeploymentStage
    \/ TestingStage
    \/ FixingStage

\* ------------------------------------------------------------ specifications
vars == <<nodes, graph, reverse_graph, res, cb, now, pending, ev, hist, dcfg, run, rp, fo, sess, ce, gd, gate>>

InitGraph == GraphInit /\ BreakerIdle /\ DeployIdle /\ RetryIdle /\ FixIdle /\ SessionIdle /\ ClassifyIdle /\ DelayIdle /\ GateIdle

SpecGraph == InitGraph /\ [][GraphNext]_vars

InitBreaker ==
    GraphInit /\ BreakerInit /\ DeployIdle /\ RetryIdle /\ FixIdle /\ SessionIdle /\ ClassifyIdle /\ DelayIdle /\ GateIdle

SpecBreaker == InitBreaker /\ [][BreakerNext]_vars

InitDeploy == DeployInit /\ BreakerIdle /\ RetryIdle /\ FixIdle /\ SessionIdle /\ ClassifyIdle /\ DelayIdle /\ GateIdle

SpecDeploy == InitDeploy /\ [][DeployNext]_vars

InitDeployCalls == DeployCallsInit /\ BreakerIdle /\ RetryIdle /\ FixIdle /\ SessionIdle /\ ClassifyIdle /\ DelayIdle /\ GateIdle

SpecDeployCalls == InitDeployCalls /\ [][DeployNext]_vars

InitRetry == GraphInit /\ BreakerIdle /\ DeployIdle /\ RetryInit /\ FixIdle /\ SessionIdle /\ ClassifyIdle /\ DelayIdle /\ GateIdle

SpecRetry == InitRetry /\ [][RetryNext]_vars

InitFix == GraphInit /\ BreakerIdle /\ DeployIdle /\ RetryIdle /\ FixInit /\ SessionIdle /\ ClassifyIdle /\ DelayIdle /\ GateIdle

SpecFix == InitFix /\ [][FixNext]_vars

InitSession ==
    GraphInit /\ BreakerIdle /\ DeployIdle /\ RetryIdle /\ SessionInit /\ ClassifyIdle /\ DelayIdle /\ GateIdle

SpecSession == InitSession /\ [][SessionNext]_vars

InitClassify ==
    GraphInit /\ BreakerIdle /\ DeployIdle /\ RetryIdle /\ FixIdle /\ SessionIdle
        /\ ClassifyInit /\ DelayIdle /\ GateIdle

SpecClassify == InitClassify /\ [][ClassifyNext]_vars

InitDelay ==
    GraphInit /\ BreakerIdle /\ DeployIdle /\ RetryIdle /\ FixIdle /\ SessionIdle
        /\ ClassifyIdle /\ DelayInit /\ GateIdle

SpecDelay == InitDelay /\ [][DelayNext]_vars

InitGate ==
    GraphInit /\ BreakerIdle /\ DeployIdle /\ RetryIdle /\ FixIdle /\ SessionIdle
        /\ ClassifyIdle /\ DelayIdle /\ GateInit

SpecGate == InitGate /\ [][GateNext]_vars

\* the event loop runs every task that is ready, and a backend call that was
\* started returns: no task of the batch is left unstarted for ever, and none
\* stays inside the gate for ever
SpecGateFair ==
    /\ SpecGate
    /\ \A t \in 1..MaxBatch : WF_vars(StartTask(t)) /\ WF_vars(FinishTask(t))

\* ------------------------------------------------ graph-theoretic yardsticks
\* n depends (directly) on d
DependsOn(n, d) == n \in nodes /\ d \in Range(reverse_graph[n])

RECURSIVE ReachFrom(_, _)
\* nodes reachable from the set S through one or more dependency edges
ReachFrom(S, seen) ==
    LET nxt == {d \in nodes : \E n \in S : DependsOn(n, d)} \ seen
    IN IF nxt = {} THEN seen ELSE ReachFrom(nxt, seen \cup nxt)

OnCycle(n) == n \in ReachFrom({n}, {})

HasDirectedCycle == \E n \in nodes : OnCycle(n)

\* s enumerates every node exactly once, dependencies before dependents
IsTopologicalOrder(s) ==
    /\ Len(s) = Cardinality(nodes)
    /\ Range(s) = nodes
    /\ \A n \in nodes, d \in nodes :
         DependsOn(n, d) => IndexOf(s, d) < IndexOf(s, n)

\* ------------------------------------------------------------ claims C1-C3
\* C1: on an acyclic graph get_ordered_resources() returns (does not raise) a
\* sequence holding every node exactly once, each dependency at a smaller
\* index than its dependent.
C1_OrderedIsTopological ==
    (res.op = "ordered" /\ ~HasDirectedCycle) =>
        (res.raised = "none" /\ IsTopologicalOrder(res.seq))

\* a chain of three nodes (3 depends on 2 depends on 1) has been ordered
C1_Witness ==
    /\ res.op = "ordered" /\ res.raised = "none"
    /\ Cardinality(nodes) >= 3
    /\ \E a, b, c \in nodes :
         /\ a # b /\ b # c /\ a # c
         /\ DependsOn(c, b) /\ DependsOn(b, a)
         /\ res.seq = <<a, b, c>>

\* C2: has_cycle() never raises and answers TRUE exactly on graphs with a
\* directed cycle (self-dependency included); get_ordered_resources() raises
\* CyclicDependencyError on exactly those graphs and returns otherwise.
C2_CycleDetection ==
    /\ res.op = "has_cycle" => (res.raised = "none" /\ (res.flag <=> HasDirectedCycle))
    /\ res.op = "ordered" =>
         /\ res.raised \in {"none", "CyclicDependencyError"}
         /\ (res.raised = "CyclicDependencyError") <=> HasDirectedCycle

\* has_cycle() answered TRUE on a graph whose only cycle is a self-dependency
C2_Witness ==
    /\ res.op = "has_cycle" /\ res.flag
    /\ \E n \in nodes : DependsOn(n, n)
    /\ \A n \in nodes, d \in nodes : (DependsOn(n, d) /\ n # d) => ~OnCycle(n)

\* C3: on an acyclic graph get_deployment_batches() returns (no RuntimeError),
\* the concatenation of the batches is a topological order holding every node
\* once, and every dependency of a node lies in a strictly earlier batch.
C3_BatchesValid ==
    (res.op = "batches" /\ ~HasDirectedCycle) =>
        /\ res.raised = "none"
        /\ IsTopologicalOrder(FlattenSeq(res.bat))
        /\ \A n \in nodes, d \in nodes :
             DependsOn(n, d) => BatchOf(res.bat, d) < BatchOf(res.bat, n)

\* batches were formed for a graph where one batch holds two nodes and a
\* later batch a node that depends on one of them
C3_Witness ==
    /\ res.op = "batches" /\ res.raised = "none"
    /\ Len(res.bat) >= 2
    /\ Len(res.bat[1]) >= 2
    /\ \E n \in Range(res.bat[2]), d \in Range(res.bat[1]) : DependsOn(n, d)

\* ----------------------------------------------------------- claims C8-C10
\* C8: from Closed the breaker opens exactly when failure_threshold failed
\* calls in a row have occurred, recording the failure time; a success while
\* Closed puts failure_count back to 0, so failures with a success between
\* them do not add up.
C8_OpensAtThreshold ==
    /\ [](cb.state = "closed" =>
            /\ cb.failure_count = hist.consec_fail
            /\ hist.consec_fail < cb.failure_threshold)
    /\ [][(cb.state = "closed" /\ cb'.state = "open") =>
            /\ ev'.kind \in {"call", "completed"} /\ ~ev'.ok
            /\ hist'.consec_fail = cb.failure_threshold
            /\ cb'.last_failure_time = now']_vars

\* a breaker with the largest threshold has just opened from Closed although
\* more calls than that were made: earlier failures were wiped by a success
C8_Witness ==
    /\ cb.state = "open" /\ ev.seen = "closed" /\ ~ev.ok
    /\ cb.failure_threshold = MaxThreshold
    /\ cb.failure_count = cb.failure_threshold
    /\ hist.invoked > cb.failure_threshold + 1

\* C9: a call made while the breaker is Open and less than recovery_timeout
\* has passed since the last failure raises CircuitBreakerError, does not
\* invoke the guarded function and changes no field of the breaker.
C9_OpenRejects ==
    [][(hist'.calls # hist.calls /\ cb.state = "open"
        /\ now - cb.last_failure_time < cb.recovery_timeout) =>
          /\ ev'.kind = "rejected"
          /\ hist'.invoked = hist.invoked
          /\ cb' = cb]_vars

\* a call was rejected some time after the failure that opened the breaker
C9_Witness ==
    /\ ev.kind = "rejected" /\ cb.state = "open"
    /\ now > cb.last_failure_time
    /\ hist.invoked < hist.calls

\* C10: once recovery_timeout has passed since the last failure the next call
\* moves the breaker Open -> Half-Open before the guarded function runs; the
\* breaker goes back to Closed (by a call) exactly when success_threshold
\* successes in a row have completed in Half-Open, with both counters at 0.
C10_Recovery ==
    /\ [][(hist'.calls # hist.calls /\ cb.state = "open"
           /\ now - cb.last_failure_time >= cb.recovery_timeout) =>
             /\ ev'.kind \in {"call", "admitted"}
             /\ ev'.seen = "half_open"
             /\ hist'.invoked = hist.invoked + 1]_vars
    /\ [](cb.state = "half_open" => hist.ho_succ < cb.success_threshold)
    /\ [][(cb.state # "closed" /\ cb'.state = "closed" /\ ev'.kind # "reset") =>
             /\ ev'.seen = "half_open" /\ ev'.ok
             /\ hist'.ho_succ = cb.success_threshold
             /\ cb'.failure_count = 0
             /\ cb'.success_count = 0]_vars

\* the breaker closed after two successes in Half-Open, having waited out a
\* positive recovery_timeout
C10_Witness ==
    /\ cb.state = "closed" /\ ev.seen = "half_open" /\ ev.ok
    /\ cb.success_threshold = MaxThreshold
    /\ hist.ho_succ = cb.success_threshold
    /\ cb.recovery_timeout > 0
    /\ cb.last_failure_time # NoTime

\* C11: a failed call that ran while the breaker was Half-Open leaves it Open
\* with success_count 0 and last_failure_time the time of the failure; and
\* while less than recovery_timeout has passed since the last failure every
\* call on the Open breaker is rejected without running the function.
C11_HalfOpenFailureReopens ==
    /\ [][(ev'.kind \in {"call", "completed"} /\ ev'.seen = "half_open" /\ ~ev'.ok
            /\ hist' # hist) =>
             /\ cb'.state = "open"
             /\ cb'.success_count = 0
             /\ cb'.last_failure_time = now
             /\ call_gate(cb', now).raised =
                  IF cb.recovery_timeout > 0 THEN "CircuitBreakerError" ELSE "none"]_vars
    /\ [][(cb.state = "open" /\ cb.last_failure_time # NoTime
            /\ now - cb.last_failure_time < cb.recovery_timeout
            /\ hist'.calls = hist.calls + 1) =>
             /\ ev'.kind = "rejected"
             /\ hist'.invoked = hist.invoked
             /\ cb'.state = "open"
             /\ cb'.last_failure_time = cb.last_failure_time]_vars

\* a probe failed in Half-Open after an earlier probe had succeeded
\* (success_threshold 2), and the breaker, with a positive recovery_timeout,
\* is Open again with the counter back at 0
C11_Witness ==
    /\ ev.kind \in {"call", "completed"} /\ ev.seen = "half_open" /\ ~ev.ok
    /\ cb.state = "open" /\ cb.success_count = 0
    /\ cb.last_failure_time = now
    /\ cb.recovery_timeout > 0
    /\ cb.success_threshold > 1
    /\ hist.invoked > cb.failure_threshold + 1

\* ------------------------------------------------------------ claims C4-C7
\* a backend call (exists, validate, provision) has been issued for r
Started(r) == run.ops[r] # {}

Succeeded(r) == r \in Range(run.deployed_resources)

Failed(r) == r \in Range(run.error_messages)

\* r has reached a terminal state
Terminal(r) == Succeeded(r) \/ Failed(r)

\* the wave (batch number) of every node of the graph handed to
\* deploy_resources
WaveOf == run.waves

Deploying == dcfg.with_graph /\ run.pc \notin {"idle", "ValidationError"}

Given == Range(run.deployments)

\* C4: in a deploy with a dependency graph no backend call is issued for a
\* spec of a later batch before every spec of the earlier batches is
\* terminal; so no spec is started before all its dependencies are terminal.
C4_BatchesInSequence ==
    Deploying =>
        LET wave == WaveOf
        IN \A r \in Given : Started(r) =>
             /\ \A t \in Given : wave[t] < wave[r] => Terminal(t)
             /\ \A t \in Given : DependsOn(r, t) => Terminal(t)

\* a spec is being deployed whose dependency comes after it in the caller's
\* list and is already terminal
C4_Witness ==
    /\ Deploying
    /\ \E r \in Given, t \in Given :
         /\ DependsOn(r, t) /\ t > r
         /\ Started(r) /\ ~Terminal(r) /\ Terminal(t)
         /\ \E u \in Given : u # t /\ WaveOf[u] = WaveOf[t]

\* C5: with a dependency graph a spec ends succeeded only if each of its
\* dependencies succeeded in the run, and once a spec of a wave has failed no
\* spec of a later wave is started.
C5_SucceededOnlyAfterDependencies ==
    Deploying =>
        LET wave == WaveOf
        IN /\ \A r \in Given, t \in Given :
                (Succeeded(r) /\ DependsOn(r, t)) => Succeeded(t)
           /\ \A r \in Given, t \in Given :
                (Failed(t) /\ wave[t] < wave[r]) => ~Started(r)

\* C6: with rollback enabled and a failed spec, deploy returns success =
\* false after calling delete exactly once for every spec that had
\* succeeded, in reverse deployment order (a dependent before its
\* dependencies), whether or not a delete failed.
C6_RollbackInReverse ==
    (dcfg.enable_rollback /\ run.error_messages # <<>>) =>
        /\ run.pc = "rollback" =>
             run.deleted \o run.to_delete = Reverse(run.deployed_resources)
        /\ run.pc = "returned" =>
             /\ ~run.success
             /\ run.deleted = Reverse(run.deployed_resources)
             /\ \A r \in Given :
                  Cardinality({k \in 1..Len(run.deleted) : run.deleted[k] = r})
                    = IF Succeeded(r) THEN 1 ELSE 0
             /\ dcfg.with_graph =>
                  \A j \in 1..Len(run.deleted), k \in 1..Len(run.deleted) :
                      DependsOn(run.deleted[j], run.deleted[k]) => j < k

\* a chain of three specs whose last one failed: the second was deleted,
\* then the first, and one of the deletes failed
C6_Witness ==
    /\ run.pc = "returned" /\ dcfg.enable_rollback /\ dcfg.with_graph
    /\ \E a, b, c \in Given :
         /\ DependsOn(c, b) /\ DependsOn(b, a)
         /\ run.error_messages = <<c>>
         /\ run.deployed_resources = <<a, b>>
         /\ run.deleted = <<b, a>>
    /\ run.delete_failed
    /\ ~run.success

\* the step ends the deployment of the current spec
Finishes == run.pc \in {"exists", "validate", "provision"} /\ run'.i # run.i

\* without force_redeploy a spec the backend reported as existing gets no
\* validate and no provision call and counts as succeeded
SkipsExisting ==
    ~dcfg.force_redeploy =>
        \A r \in run.reported : run.ops[r] = {"exists"} /\ Succeeded(r)

C12_ExecuteRetries ==
    LET n == Len(rp.calls)
    IN /\ n <= rp.max_attempts
       /\ \A i \in 1..n : rp.calls[i].ok => i = n
       /\ (n > 0 /\ rp.calls[n].ok) =>
             /\ rp.pc = "returned"
             /\ rp.result = rp.calls[n].val
             /\ rp.raised = "none"
       /\ rp.pc = "returned" => (n > 0 /\ rp.calls[n].ok)
       /\ (rp.pc = "raised" /\ n > 0) =>
             /\ rp.raised = "RetryExhaustedError"
             /\ n = rp.max_attempts
             /\ \A i \in 1..n : ~rp.calls[i].ok
             /\ rp.exc_attempts = rp.max_attempts
             /\ rp.exc_last_error = rp.calls[n].val
       /\ (n = rp.max_attempts /\ n > 0 /\ ~rp.calls[n].ok) => rp.pc = "raised"

C12_Witness ==
    /\ rp.raised = "RetryExhaustedError"
    /\ rp.max_attempts = MaxAttempts
    /\ Len(rp.calls) = MaxAttempts
    /\ rp.exc_last_error = rp.calls[Len(rp.calls)].val
    /\ rp.calls[1].val # rp.exc_last_error

\* the stage changes run() may make; results: self.test_results after the
\* change
StageStep(a, b, results) ==
    \/ <<a, b>> \in {<<"initializing", "discovering">>,
                     <<"discovering", "analyzing">>,
                     <<"analyzing", "deploying">>,
                     <<"deploying", "testing">>,
                     <<"fixing", "testing">>,
                     <<"testing", "completed">>,
                     <<"fixing", "completed">>}
    \/ a = "testing" /\ b = "fixing" /\ failed_tests(results) # <<>>
    \/ b = "failed" /\ a \notin {"completed", "failed"}

C14_ExactlyNFixAttempts ==
    (/\ sess.pc = "returned"
     /\ sess.raised_in = "none"
     /\ failed_tests(sess.test_results) # <<>>) =>
        \/ sess.fixing_runs = sess.max_fix_attempts
        \/ sess.fix_attempts = sess.max_fix_attempts

\* C15: one run() executes the Testing stage at most max_fix_attempts + 1
\* times and the Fixing stage at most max_fix_attempts times.
C15_StageRunsBounded ==
    /\ sess.testing_runs <= sess.max_fix_attempts + 1
    /\ sess.fixing_runs <= sess.max_fix_attempts

C15_Witness ==
    /\ sess.pc = "returned"
    /\ sess.max_fix_attempts = MaxSessionFix
    /\ sess.testing_runs = sess.max_fix_attempts + 1
    /\ sess.fixing_runs = sess.max_fix_attempts

\* C16 as stated: when the test results held at the end of a run have a
\* failing result, the summary returned has success = false.
C16_FailingTestsMeanNoSuccess ==
    (sess.pc = "returned" /\ failed_tests(sess.test_results) # <<>>) =>
        ~sess.success

\* C17: the step in which a stage raises sets current_stage = Failed,
\* success = false and error_message to the exception's message, leaves
\* stages_completed as it was, records end_time and duration_seconds and
\* returns; nothing runs after run() returned; every returned summary has
\* end_time and duration_seconds.
C17_ExceptionsEndInFailed ==
    /\ [][(sess.raised_in = "none" /\ sess'.raised_in # "none") =>
            /\ sess'.raised_in = sess.current_stage
            /\ sess'.current_stage = "failed"
            /\ ~sess'.success
            /\ sess'.error_message \notin {"none", ""}
            /\ sess'.stages_completed = sess.stages_completed
            /\ sess'.raised_in \notin
                 {sess.stages_completed[i] : i \in 1..Len(sess.stages_completed)}
                   \ {"testing"}
            /\ sess'.end_time /\ sess'.duration_seconds
            /\ sess'.pc = "returned"]_vars
    /\ [][sess.pc = "returned" => sess' = sess]_vars
    /\ [](sess.pc = "returned" => sess.end_time /\ sess.duration_seconds)
    /\ [](sess.pc # "returned" => ~sess.end_time /\ ~sess.duration_seconds)

C17_Witness ==
    /\ sess.pc = "returned"
    /\ sess.raised_in = "testing"
    /\ sess.current_stage = "failed"
    /\ sess.error_message = "testing error"
    /\ sess.stages_completed =
         <<"discovering", "analyzing", "deploying", "testing", "fixing">>
    /\ sess.end_time /\ sess.duration_seconds

FixCalled == fo'.ncalls = fo.ncalls + 1

\* C19: a call made while the orchestrator's breaker is open returns false
\* without classifying, dispatching or appending, and leaves the breaker
\* open; reset_circuit_breaker leaves the flag cleared and the log empty; the
\* first call after a reset, given at least one error category and
\* max_fix_attempts > 0, dispatches a strategy for every category.
C19_OpenBlocksUntilReset ==
    /\ [][(fo.o.circuit_breaker_open /\ FixCalled) =>
            /\ ~fo'.last.ret
            /\ ~fo'.last.classified
            /\ fo'.last.dispatched = 0
            /\ fo'.o = fo.o]_vars
    /\ [](fo.last.kind = "reset" =>
            ~fo.o.circuit_breaker_open /\ fo.o.fix_attempts = <<>>)
    /\ [][(fo.last.kind = "reset" /\ FixCalled /\ fo'.last.given > 0
             /\ fo.o.max_fix_attempts > 0) =>
            /\ fo'.last.classified
            /\ fo'.last.dispatched = fo'.last.given
            /\ Len(fo'.o.fix_attempts) = fo'.last.given]_vars

C19_Witness ==
    /\ fo.trail = "recovered"
    /\ fo.last.kind = "attempt_fix"
    /\ fo.last.dispatched > 1
    /\ Len(fo.o.fix_attempts) = fo.last.dispatched
    /\ fo.o.max_fix_attempts = MaxFix

\* C20 as stated: right after the attempt_fix call that brings the number of
\* recorded fix attempts to max_fix_attempts or beyond, circuit_breaker_open
\* is true, and it is false after every call that leaves the number below.
C20_OpenAsSoonAsMaxRecorded ==
    /\ [][(FixCalled /\ Len(fo.o.fix_attempts) < fo.o.max_fix_attempts
             /\ Len(fo'.o.fix_attempts) >= fo.o.max_fix_attempts) =>
            fo'.o.circuit_breaker_open]_vars
    /\ [][(FixCalled /\ Len(fo'.o.fix_attempts) < fo.o.max_fix_attempts) =>
            ~fo'.o.circuit_breaker_open]_vars

\* ------------------------------------------------------- claims C21 - C30
\* the FixAttempts an attempt_fix call of this step appended
Appended ==
    SubSeq(fo'.o.fix_attempts, Len(fo.o.fix_attempts) + 1, Len(fo'.o.fix_attempts))

\* C21: an attempt_fix call that gets past the breaker checks appends one
\* FixAttempt for each error category of the call, successful or not, after
\* the attempts already logged, and returns true iff every appended attempt
\* succeeded; with no category it returns true and appends nothing.
C21_OneAttemptPerCategory ==
    [][(FixCalled /\ fo'.last.classified) =>
         /\ Len(fo'.o.fix_attempts) = Len(fo.o.fix_attempts) + fo'.last.given
         /\ SubSeq(fo'.o.fix_attempts, 1, Len(fo.o.fix_attempts)) = fo.o.fix_attempts
         /\ \A i, j \in 1..Len(Appended) :
               Appended[i].error_category = Appended[j].error_category => i = j
         /\ {Appended[i].error_category : i \in 1..Len(Appended)} = fo'.last.categories
         /\ fo'.last.dispatched = fo'.last.given
         /\ fo'.last.ret <=> \A i \in 1..Len(Appended) : Appended[i].success
         /\ fo'.last.given = 0 => (fo'.last.ret /\ fo'.o = fo.o)]_vars

C21_Witness ==
    /\ fo.last.kind = "attempt_fix"
    /\ fo.last.classified
    /\ fo.last.given = 2
    /\ ~fo.last.ret
    /\ Len(fo.o.fix_attempts) = 3
    /\ fo.o.fix_attempts[2].success
    /\ ~fo.o.fix_attempts[3].success

\* C22 as stated: the log of an orchestrator never holds more than
\* max_fix_attempts FixAttempts, and the fix_attempts count of the session's
\* summary never exceeds the session's max_fix_attempts.
C22_LogWithinMax ==
    /\ Len(fo.o.fix_attempts) <= fo.o.max_fix_attempts
    /\ sess.fix_attempts <= sess.max_fix_attempts

\* the members of ErrorCategory
ErrorCategory ==
    {"timeout", "auth_error", "server_error", "template_issue",
     "dependency_issue", "configuration_issue", "network_issue", "unknown"}

\* the table of the specification
StrategyTable ==
    [c \in ErrorCategory |->
       CASE c = "timeout"             -> "retry"
         [] c = "auth_error"          -> "reconfigure"
         [] c = "server_error"        -> "update_template"
         [] c = "template_issue"      -> "update_template"
         [] c = "dependency_issue"    -> "update_dependencies"
         [] c = "configuration_issue" -> "reconfigure"
         [] c = "network_issue"       -> "retry"
         [] c = "unknown"             -> "manual_intervention"]

\* C28: _select_fix_strategy maps every ErrorCategory as the table says, and
\* every recorded FixAttempt carries the strategy of its category; an attempt
\* with ManualIntervention is recorded as failed; an attempt_fix call whose
\* arguments hold an UNKNOWN-category failure returns false.
C28_StrategyTable ==
    /\ [](\A c \in ErrorCategory : select_fix_strategy(c) = StrategyTable[c])
    /\ [](\A i \in 1..Len(fo.o.fix_attempts) :
            LET a == fo.o.fix_attempts[i]
            IN /\ a.error_category \in ErrorCategory
               /\ a.fix_strategy = StrategyTable[a.error_category]
               /\ a.fix_strategy = "manual_intervention" => ~a.success)
    /\ [][(FixCalled /\ "unknown" \in fo'.last.categories) => ~fo'.last.ret]_vars

C28_Witness ==
    /\ fo.last.kind = "attempt_fix"
    /\ fo.last.classified
    /\ ~fo.last.ret
    /\ {"timeout", "unknown"} \subseteq fo.last.categories
    /\ \E i, j \in 1..Len(fo.o.fix_attempts) :
         /\ fo.o.fix_attempts[i].fix_strategy = "retry"
         /\ fo.o.fix_attempts[i].success
         /\ fo.o.fix_attempts[j].fix_strategy = "manual_intervention"
         /\ ~fo.o.fix_attempts[j].success

\* the keyword sets in the order of the specification, with their categories
OrderedSets ==
    << <<"template", "template_issue">>, <<"dependency", "dependency_issue">>,
       <<"configuration", "configuration_issue">>, <<"network", "network_issue">>,
       <<"auth", "auth_error">> >>

\* the keyword sets the message of ce matches, by the make-up of the message
Matched == UNION {Fragments[ce.parts[i]].hits : i \in 1..Len(ce.parts)}

\* C29: the category returned for a deployment error message is that of the
\* first keyword set, in the order TEMPLATE_ISSUE, DEPENDENCY_ISSUE,
\* CONFIGURATION_ISSUE, NETWORK_ISSUE, AUTH_ERROR, that has a keyword in the
\* message whatever the case of its letters, and UNKNOWN when no set has one.
C29_FirstKeywordSetWins ==
    ce.pc = "returned" =>
        /\ \A i \in 1..Len(OrderedSets) :
             (/\ OrderedSets[i][1] \in Matched
              /\ \A j \in 1..(i - 1) : OrderedSets[j][1] \notin Matched)
                => ce.category = OrderedSets[i][2]
        /\ Matched = {} => ce.category = "unknown"

C29_Witness ==
    /\ ce.pc = "returned"
    /\ ce.category = "network_issue"
    /\ Matched = {"network", "auth"}
    /\ Len(ce.parts) = 2
    /\ ce.error_message # lower(ce.error_message)

WellFormedGraph ==
    /\ DOMAIN graph = nodes
    /\ DOMAIN reverse_graph = nodes
    /\ \A n \in nodes :
         /\ Range(graph[n]) \subseteq nodes
         /\ Range(reverse_graph[n]) \subseteq nodes
         /\ Len(graph[n]) = Cardinality(Range(graph[n]))
         /\ Len(reverse_graph[n]) = Cardinality(Range(reverse_graph[n]))
    /\ \A n \in nodes, d \in nodes :
         (d \in Range(reverse_graph[n])) <=> (n \in Range(graph[d]))

\* C30: after any sequence of add_node, add_dependency and clear the graph is
\* well formed: the keys of both adjacency maps are exactly the nodes, every
\* edge endpoint is a node, the dependents map is the transpose of the
\* dependencies map, no adjacency list holds an entry twice, and adding a
\* node or an edge the graph already has leaves it as it is.
C30_GraphWellFormed ==
    /\ WellFormedGraph
    /\ \A n \in nodes : add_node(G, n) = G
    /\ \A n \in nodes, d \in nodes :
         d \in Range(reverse_graph[n]) => add_dependency(G, n, d) = G

\* a graph with a self-dependency and a two-node cycle, which only re-added
\* edges and nodes could have disturbed
C30_Witness ==
    /\ Cardinality(nodes) = MaxNodes
    /\ \E a, b \in nodes :
         /\ a # b
         /\ reverse_graph[a] = <<a, b>>
         /\ reverse_graph[b] = <<a>>
         /\ graph[a] = <<a, b>>
         /\ graph[b] = <<a>>

\* C27: without jitter get_delay(attempt) returns, for every attempt >= 0,
\* min(base_delay * 2^attempt, max_delay); the value never exceeds max_delay,
\* is never negative, and of two calls on one policy the one with the larger
\* attempt number returns at least as much.  (Every max_delay considered is
\* below 2^MaxDelayCap, so exponents beyond MaxDelayCap give the same minimum.)
C27_DelayIsCappedPower ==
    ~gd.jitter =>
        /\ \A i \in 1..Len(gd.calls) :
             LET c == gd.calls[i]
             IN /\ c.raised = "none"
                /\ c.delay = Min(gd.base_delay * 2^Min(c.attempt, MaxDelayCap), gd.max_delay)
                /\ c.delay <= gd.max_delay
                /\ c.delay >= 0
        /\ \A i, j \in 1..Len(gd.calls) :
             gd.calls[i].attempt <= gd.calls[j].attempt
                => gd.calls[i].delay <= gd.calls[j].delay

\* the run as deploy_resources found it: nothing called, nothing recorded,
\* the specs in the caller's order
Untouched ==
    [run EXCEPT !.pc = "idle"]
        = [NoRun EXCEPT !.deployments = SubSeq(AllSpecs, 1, Len(run.deployments))]

\* C23: deploy_resources called with a graph that has a cycle raises
\* ValidationError; no exists, validate, provision or delete call has been
\* made, nothing is recorded as deployed or failed, and the specs are as the
\* caller passed them.
C23_CyclicGraphFailsFast ==
    /\ (dcfg.with_graph /\ HasDirectedCycle) =>
          /\ run.pc \in {"idle", "ValidationError"}
          /\ \A r \in Rid : run.ops[r] = {}
          /\ run.deleted = <<>>
          /\ Untouched
    /\ run.pc = "ValidationError" => (dcfg.with_graph /\ HasDirectedCycle)

\* three specs, the second and third depending on each other: the call has
\* raised
C23_Witness ==
    /\ run.pc = "ValidationError"
    /\ Len(run.deployments) = 3
    /\ DependsOn(2, 3) /\ DependsOn(3, 2)
    /\ ~OnCycle(1)
    /\ Untouched

\* the run is over: deploy_resources has computed success
Aggregated == run.pc \in {"rollback", "returned"}

\* C24: the success of a DeploymentResult is true iff no spec failed
\* (error_messages is empty) and at least one spec succeeded; a call with an
\* empty list of specs yields success = false.
C24_SuccessIffAllSucceeded ==
    Aggregated =>
        /\ run.success <=> (run.error_messages = <<>> /\ run.deployed_resources # <<>>)
        /\ run.success <=> ((\A r \in Given : ~Failed(r)) /\ (\E r \in Given : Succeeded(r)))
        /\ run.deployments = <<>> => ~run.success

\* a call with no specs has returned, without success
C24_Witness ==
    /\ run.pc = "returned"
    /\ run.deployments = <<>>
    /\ run.error_messages = <<>>
    /\ ~run.success

\* the specs of the run that did not succeed
NotDeployed == {r \in Given : ~Succeeded(r)}

\* how often r occurs in s
Occurrences(s, r) == Cardinality({k \in 1..Len(s) : s[k] = r})

InsideGate == {t \in BatchTasks : gate.task[t].pc = "inside"}

\* task t of the batch has been admitted and has ended
AdmittedAndTerminal(t) ==
    /\ t \in BatchTasks
    /\ gate.task[t].admitted
    /\ gate.task[t].pc \in {"succeeded", "failed"}

\* C26: at every moment at most max_concurrent deployments are inside the
\* admission gate (the free slots and the tasks inside add up to
\* max_concurrent), whatever the size of the batch; and every task of the
\* batch is eventually admitted and ends succeeded or failed.
C26_GateBoundsAndAdmits ==
    /\ [](/\ Cardinality(InsideGate) <= gate.max_concurrent
          /\ gate.value >= 0
          /\ gate.value + Cardinality(InsideGate) = gate.max_concurrent)
    /\ \A t \in 1..MaxBatch :
         (t \in BatchTasks) ~> AdmittedAndTerminal(t)

\* a batch larger than max_concurrent: the gate is full and a task queues
C26_Witness ==
    /\ Cardinality(BatchTasks) = MaxBatch
    /\ gate.max_concurrent = 2
    /\ Cardinality(InsideGate) = 2
    /\ Len(gate.waiters) >= 1
    /\ gate.value = 0

BatchesOf(n) == {i \in 1..Len(res.bat) : n \in Range(res.bat[i])}

\* C32: the batches returned by get_deployment_batches() are non-empty and
\* pairwise disjoint, hold every node once, and are maximal: the first batch
\* holds exactly the nodes without dependencies, and a node is in a later
\* batch k iff it has dependencies, all of them are in batches before k and
\* one of them is in the batch just before k.
C32_BatchesAreMaximal ==
    (res.op = "batches" /\ res.raised = "none") =>
        /\ \A i \in 1..Len(res.bat) :
             /\ res.bat[i] # <<>>
             /\ Len(res.bat[i]) = Cardinality(Range(res.bat[i]))
             /\ Range(res.bat[i]) \subseteq nodes
        /\ \A n \in nodes : Cardinality(BatchesOf(n)) = 1
        /\ \A n \in nodes :
             (n \in Range(res.bat[1])) <=> (reverse_graph[n] = <<>>)
        /\ \A n \in nodes, k \in 2..Len(res.bat) :
             (n \in Range(res.bat[k])) <=>
                 /\ reverse_graph[n] # <<>>
                 /\ \A d \in Range(reverse_graph[n]) : \E j \in 1..(k - 1) : j \in BatchesOf(d)
                 /\ \E d \in Range(reverse_graph[n]) : (k - 1) \in BatchesOf(d)

\* one node without dependencies and two nodes that depend on it: the two
\* share the second batch
C32_Witness ==
    /\ res.op = "batches" /\ res.raised = "none"
    /\ Len(res.bat) = 2
    /\ Len(res.bat[1]) = 1
    /\ Len(res.bat[2]) = 2
    /\ \A n \in Range(res.bat[2]) : reverse_graph[n] = res.bat[1]

\* C33: the cycle_path carried by CyclicDependencyError is non-empty, starts
\* and ends with the same node, every node of it lies on a directed cycle,
\* each node of it depends on the one that follows, and the walk that built
\* it ended by meeting a node again (no node but the first occurs twice).
C33_CyclePathIsACycle ==
    (res.op = "ordered" /\ res.raised = "CyclicDependencyError") =>
        LET p == res.seq
        IN /\ Len(p) >= 2
           /\ p[1] = p[Len(p)]
           /\ \A i \in 1..Len(p) : p[i] \in nodes /\ OnCycle(p[i])
           /\ \A i \in 1..(Len(p) - 1) : DependsOn(p[i], p[i + 1])
           /\ \A i, j \in 1..(Len(p) - 1) : p[i] = p[j] => i = j

\* a two-node cycle and a third node that depends on it: the path reported
\* is the cycle alone
C33_Witness ==
    /\ res.op = "ordered" /\ res.raised = "CyclicDependencyError"
    /\ Len(res.seq) = 3
    /\ res.seq[1] # res.seq[2]
    /\ \E c \in nodes :
         /\ ~OnCycle(c)
         /\ DependsOn(c, res.seq[1])
         /\ c \notin Range(res.seq)

\* the backend calls logged for the deployment the loop is at (or has just
\* finished)
Calls == run.trace

CallsOf(op) == {i \in 1..Len(Calls) : Calls[i].op = op}

\* the place of a backend operation in exists -> validate -> provision
call_rank == [exists |-> 1, validate |-> 2, provision |-> 3]

\* the logged deployment was skipped by the idempotency check
SkippedAsExisting == Calls # <<>> /\ Calls[1].op = "exists" /\ Calls[1].ok

ProvisionSucceeded == \E i \in CallsOf("provision") : Calls[i].ok

\* C34: for a spec the idempotency check did not skip, the backend calls come
\* in the order exists -> validate -> provision (exists once and first, and
\* left out only under force_redeploy); provision is called only after a
\* validate call succeeded, at most max_attempts times and never again after
\* a provision call succeeded; the spec is Succeeded exactly when a provision
\* call succeeded, it is Failed exactly when its calls are over without one,
\* and it is never both.
C34_CallsInOrder ==
    (Calls # <<>> /\ ~SkippedAsExisting) =>
        LET r == Calls[1].rid
        IN /\ \A i, j \in 1..Len(Calls) :
                i < j => call_rank[Calls[i].op] <= call_rank[Calls[j].op]
           /\ CallsOf("exists") = (IF dcfg.force_redeploy THEN {} ELSE {1})
           /\ \A j \in CallsOf("provision") :
                \E i \in CallsOf("validate") : i < j /\ Calls[i].ok
           /\ Cardinality(CallsOf("provision")) <= max_attempts
           /\ \A i, j \in CallsOf("provision") : i < j => ~Calls[i].ok
           /\ Succeeded(r) <=> ProvisionSucceeded
           /\ Failed(r) => ~ProvisionSucceeded
           /\ (run.pc \in {"rollback", "returned"} \/ Cur # r)
                => (Failed(r) <=> ~ProvisionSucceeded)

\* a spec that was validated, failed to provision twice and was provisioned
\* on the third call; and the run is over
C34_Witness ==
    /\ run.pc = "returned"
    /\ ~SkippedAsExisting
    /\ Cardinality(CallsOf("provision")) = max_attempts
    /\ ProvisionSucceeded
    /\ CallsOf("exists") = {1}
    /\ Succeeded(Calls[1].rid)

\* C35 as stated: template validation is invoked at most once per spec, and a
\* failed validation is the spec's last backend call and leaves it Failed.
C35_ValidationNotRetried ==
    Calls # <<>> =>
        /\ Cardinality(CallsOf("validate")) <= 1
        /\ \A i \in CallsOf("validate") :
             ~Calls[i].ok => (i = Len(Calls) /\ Failed(Calls[1].rid))

\* the specs rollback has passed, or is about to pass, to cli.delete_resource
PassedToDelete == Range(run.deleted) \cup Range(run.to_delete)

\* C37 as stated: rollback deletes only what this deploy_resources call
\* provisioned; a spec skipped because the backend reported it as existing is
\* never passed to delete.
C37_RollbackOnlyProvisioned ==
    \A r \in PassedToDelete :
        /\ r \notin run.reported
        /\ "provision" \in run.ops[r]

\* the tasks of the batch that have returned success so far
SucceededTasks == {t \in BatchTasks : gate.task[t].pc = "succeeded"}

C38_CountersInRange ==
    /\ cb.state \in {"closed", "open", "half_open"}
    /\ cb.failure_count >= 0 /\ cb.success_count >= 0
    /\ cb.state = "closed" => cb.failure_count < cb.failure_threshold
    /\ cb.state \in {"closed", "open"} => cb.success_count = 0
    /\ cb.state = "half_open" => cb.success_count < cb.success_threshold
    /\ cb.state = "open" => cb.last_failure_time # NoTime

\* the breaker has just closed on the second successful probe in a row,
\* after having been open
C38_Witness ==
    /\ cb.state = "closed"
    /\ cb.success_threshold >= 2
    /\ ev.kind \in {"call", "completed"} /\ ev.seen = "half_open" /\ ev.ok
    /\ hist.ho_succ >= 2
    /\ cb.last_failure_time # NoTime

\* C39 as stated: at every point of a session run progress_percentage is
\* len(stages_completed) / 6 * 100 and lies between 0 and 100.
C39_ProgressWithin100 ==
    LET p == get_progress(sess).progress_percentage
    IN /\ p.num = Len(sess.stages_completed) * 100 /\ p.den = 6
       /\ 0 <= p.num
       /\ p.num <= 100 * p.den

====
